---- MODULE Spec2Model ----
(***************************************************************************)
(* blempy.PropertyCollection: a proxy that copies one field of every       *)
(* element of a host property collection into a numpy array (get), lets    *)
(* the caller change the array, and copies it back (set).                  *)
(*                                                                         *)
(* The host collection is a sequence of elements; the field of an element  *)
(* is a sequence of hostLen components (hostLen = 1 is a scalar field).    *)
(* An array is a record: id names the storage it lives in, rows is the     *)
(* content of that storage (one sequence per element), cols is the number  *)
(* of leading components of each row the array shows, ndim is 1 for the    *)
(* collapsed shape (items,) and 2 for (items, cols).  A slice [:, :3] of a *)
(* 4-wide array has the same id and rows and cols = 3.  dtype is the type   *)
(* of its components.                                                      *)
(*                                                                         *)
(* blempy.UnifiedAttribute: a proxy of one attribute layer of a mesh.  It  *)
(* holds a PropertyCollection of the layer's data (loop_attributes) and,   *)
(* for a layer of the CORNER domain, two more over the loop_start and      *)
(* loop_total fields of the faces, and it groups the rows of the first by  *)
(* face.  Both classes are containers (indexing, item assignment,          *)
(* iteration) and have arithmetic operators.                               *)
(*                                                                         *)
(* Four specifications share the definitions: Spec is a PropertyCollection *)
(* used through get, set, extend, discard, item assignment and += while    *)
(* the host changes its collection; SpecUA is a UnifiedAttribute from its  *)
(* construction on, while the host changes the faces of the mesh;          *)
(* SpecItems is the container interface of both classes; SpecArith is      *)
(* their arithmetic.                                                       *)
(***************************************************************************)
EXTENDS Integers, Sequences, FiniteSets, TLC

VARIABLES host, hostLen, ndarray, items, length, extended, last

vars == <<host, hostLen, ndarray, items, length, extended, last>>

\* The state of a UnifiedAttribute and of the container interface.  A
\* UnifiedAttribute holds three PropertyCollections in the CORNER domain and
\* one in the others: its loop_attributes is the proxy of the variables above
\* (host is then the data of the attribute layer), loop_start and loop_total
\* are records of the same four fields over the fields of mesh.polygons;
\* self_attr is its attr, the name of the field it proxies.
VARIABLES loops, proxy, self_attr, layer, polygons, loop_start, loop_total, _index, view, ret,
          wrote

uvars ==
    <<loops, proxy, self_attr, layer, polygons, loop_start, loop_total, _index, view, ret, wrote>>

allvars == <<vars, uvars>>

\* loops follows the for loops of the callers over the proxy, which the proxy
\* knows nothing of: for each caller whether its loop runs, the keys of the
\* elements it was given, whether another loop was started meanwhile
\* (shared), how that one fared (inner) and how many elements this loop had
\* been given when it started (mark)
Callers == {1, 2}
Idle == [stage |-> "idle", seen |-> << >>, shared |-> FALSE, inner |-> "none", mark |-> 0]
NoLoops == [c \in Callers |-> Idle]

\* ---- bounds of the model ------------------------------------------------
MaxItems == 3      \* most elements the host collection holds
MaxVal == 7        \* largest component value in-place arithmetic may produce

\* ---- inputs ---------------------------------------------------------------
HostLens == 1 .. 4                 \* component counts of a host field
Tags == {1}                        \* the value an edit gives an element (new ones have 0)
Keys == {0, MaxItems}              \* an index in range and one past the end

\* field value of tag t with n components: components differ from each other
\* and between tags, the largest is 6 + t, the 4th is the alpha of a colour
Vec(t, n) ==
    [j \in 1 .. n |-> IF j = 4 THEN 1 ELSE 2 * (j + 3 - (IF n > 3 THEN 3 ELSE n)) + t]

None == [id |-> 0, ndim |-> 0, rows |-> << >>, cols |-> 0, dtype |-> "none"]
Uninit == -1                       \* content of np.empty before it is written

\* ---- numpy arrays -----------------------------------------------------
Rows(a) == Len(a.rows)
BaseCols(a) == IF Rows(a) = 0 THEN 0 ELSE Len(a.rows[1])
\* a.shape[-1]
LastDim(a) == IF a.ndim = 1 THEN Rows(a) ELSE a.cols
\* a.size
Size(a) == Rows(a) * a.cols
\* a.flags.c_contiguous: a slice of the leading columns is contiguous only
\* when it has one row (strides of a dimension of size 1 do not count)
Contiguous(a) == a.cols = BaseCols(a) \/ Rows(a) = 1
\* the rows the array shows
Visible(a) == [i \in 1 .. Rows(a) |-> SubSeq(a.rows[i], 1, a.cols)]
\* row-major flattening of n rows of w components
Flat(rows, n, w) == [k \in 1 .. n * w |-> rows[((k - 1) \div w) + 1][((k - 1) % w) + 1]]
Unflat(flat, n, w) == [i \in 1 .. n |-> [j \in 1 .. w |-> flat[(i - 1) * w + j]]]
\* a.ravel(): the values, and whether they are a view of a or a copy
Ravel(a) == Flat(Visible(a), Rows(a), a.cols)
\* storage held neither by the proxy's array nor by a view the caller kept
NewId(a) == CHOOSE id \in 1 .. 3 : id # a.id /\ id # view.id
\* np.empty(n, dtype)
np_empty(id, n, dtype) ==
    [id |-> id, ndim |-> 1, rows |-> [i \in 1 .. n |-> <<Uninit>>], cols |-> 1,
     dtype |-> dtype]
\* the component type numpy gives an array made of arrays of types t and u
result_type(t, u) ==
    IF t = u THEN t ELSE IF t = "bool" THEN u ELSE IF u = "bool" THEN t ELSE "float64"
\* write flat through a.ravel(): reaches a only when ravel() is a view
WriteRavel(a, flat) ==
    IF Contiguous(a)
    THEN [a EXCEPT !.rows = [i \in 1 .. Rows(a) |->
              [j \in 1 .. BaseCols(a) |->
                  IF j <= a.cols THEN flat[(i - 1) * a.cols + j] ELSE a.rows[i][j]]]]
    ELSE a
\* a.shape = (n, w) if w > 1 else (n,): regroups the storage of an array that
\* shows all of it, and leaves a slice alone (its shape is (n, w) already)
SetShape(a, n, w) ==
    IF a.cols = BaseCols(a)
    THEN [a EXCEPT !.rows = Unflat(Flat(a.rows, Rows(a), a.cols), n, w),
                   !.cols = w,
                   !.ndim = IF w > 1 THEN 2 ELSE 1]
    ELSE a

\* ---- host collection ----------------------------------------------------
\* property_collection.foreach_get(attr, seq): all field values, element order
foreach_get(h, n) == Flat(h, Len(h), n)
\* property_collection.foreach_set(attr, seq) accepts seq only when it has one
\* value per component of every element
foreach_set_ok(h, n, flat) == Len(flat) = Len(h) * n
foreach_set(h, n, flat) == Unflat(flat, Len(h), n)

\* what the last call was and how it ended: op the operation, err the error
\* it raised ("none" when it returned), arg its argument, was the id of the
\* proxy's array when it was called (0 when the proxy had none)
Done(op, err) == [op |-> op, err |-> err, arg |-> FALSE, was |-> ndarray.id]

\* a bug: a call that raises err drops the buffer as a failed get() does
Raise_clears(op, err) ==
    /\ last' = Done(op, err)
    /\ ndarray' = None
    /\ items' = 0
    /\ length' = 0
    /\ extended' = FALSE
    /\ UNCHANGED <<host, hostLen>>

\* a call that raises err and changes nothing
Raise(op, err) ==
    /\ last' = Done(op, err)
    /\ UNCHANGED <<host, hostLen, ndarray, items, length, extended>>

TypeOK ==
    /\ hostLen \in HostLens
    /\ Len(host) \in 0 .. MaxItems
    /\ \A i \in 1 .. Len(host) : Len(host[i]) = hostLen
    /\ items \in 0 .. MaxItems
    /\ length \in 0 .. 4
    /\ extended \in BOOLEAN

Init ==
    /\ hostLen \in HostLens
    /\ host \in {[i \in 1 .. n |-> Vec(0, hostLen)] : n \in 0 .. MaxItems}
    /\ ndarray = None
    /\ items = 0
    /\ length = 0
    /\ extended = FALSE
    /\ last = [op |-> "init", err |-> "none", arg |-> FALSE, was |-> 0]

\* ---- PropertyCollection.get ------------------------------------------------
\* a bug: get allocates on every call
NeedsAlloc_always(n, len) == TRUE

\* the test that makes get allocate: n live elements of len components
NeedsAlloc(n, len) == ndarray = None \/ n # items \/ len # length \/ extended

\* attr_type of get: the type of the field of element 0 when that is bool or
\* int (a BOOLEAN layer, an INT or INT8 layer), else np.float32; the field of
\* a collection that is not an attribute layer holds floats
attr_type ==
    IF layer.data_type = "BOOLEAN" THEN "bool"
    ELSE IF layer.data_type \in {"INT", "INT8"} THEN "int"
    ELSE "float32"

\* a bug: get on an empty collection raises without clearing the proxy
get_empty_keeps ==
    /\ last' = Done("get", "EmptyCollection")
    /\ UNCHANGED <<host, hostLen, ndarray, items, length, extended>>

\* the else branch of get: the collection is empty
get_empty ==
    /\ items' = 0
    /\ length' = 0
    /\ extended' = FALSE
    /\ ndarray' = None
    /\ last' = Done("get", "EmptyCollection")
    /\ UNCHANGED <<host, hostLen>>

get ==
    LET n == Len(host) IN
    IF n > 0
    THEN LET realloc == NeedsAlloc(n, hostLen)
             arr == IF realloc THEN np_empty(NewId(ndarray), n * hostLen, attr_type) ELSE ndarray
             its == IF realloc THEN n ELSE items
             len == IF realloc THEN hostLen ELSE length
             filled == WriteRavel(arr, foreach_get(host, hostLen))
         IN /\ ndarray' = SetShape(filled, its, len)
            /\ items' = its
            /\ length' = len
            /\ extended' = IF realloc THEN FALSE ELSE extended
            /\ last' = Done("get", "none")
            /\ UNCHANGED <<host, hostLen>>
    ELSE get_empty

\* ---- PropertyCollection.set ------------------------------------------------
\* a bug: set does not compare the component counts
set_without_shape_check ==
    IF Len(host) = 0
    THEN Raise("set", "EmptyCollection")
    ELSE IF ~foreach_set_ok(host, hostLen, Ravel(ndarray))
    THEN Raise("set", "LengthMismatch")
    ELSE /\ host' = foreach_set(host, hostLen, Ravel(ndarray))
         /\ last' = Done("set", "none")
         /\ UNCHANGED <<hostLen, ndarray, items, length, extended>>

\* a bug: set compares the component counts before it looks for elements
set_shape_first ==
    IF hostLen # length
    THEN Raise("set", "ShapeMismatch")
    ELSE IF Len(host) = 0
    THEN Raise("set", "EmptyCollection")
    ELSE IF ~foreach_set_ok(host, hostLen, Ravel(ndarray))
    THEN Raise("set", "LengthMismatch")
    ELSE /\ host' = foreach_set(host, hostLen, Ravel(ndarray))
         /\ last' = Done("set", "none")
         /\ UNCHANGED <<hostLen, ndarray, items, length, extended>>

\* a bug: set assigns the elements one by one, and runs out of rows when the
\* collection has grown
set_per_element ==
    IF Len(host) = 0
    THEN Raise("set", "EmptyCollection")
    ELSE IF hostLen # length
    THEN Raise("set", "ShapeMismatch")
    ELSE /\ host' = [i \in 1 .. Len(host) |->
                        IF i <= Rows(ndarray) THEN Visible(ndarray)[i] ELSE host[i]]
         /\ last' = Done("set", IF Rows(ndarray) < Len(host) THEN "IndexError" ELSE "none")
         /\ UNCHANGED <<hostLen, ndarray, items, length, extended>>

\* a bug: set keeps the copy it made for the transfer as its buffer
set_keeps_copy ==
    IF Len(host) = 0
    THEN Raise("set", "EmptyCollection")
    ELSE IF hostLen # length
    THEN Raise("set", "ShapeMismatch")
    ELSE IF ~foreach_set_ok(host, hostLen, Ravel(ndarray))
    THEN Raise("set", "LengthMismatch")
    ELSE /\ host' = foreach_set(host, hostLen, Ravel(ndarray))
         /\ ndarray' = [ndarray EXCEPT !.id = NewId(ndarray)]
         /\ last' = Done("set", "none")
         /\ UNCHANGED <<hostLen, items, length, extended>>

\* a bug: set() without a buffer returns without a word
set_from_absent_buffer ==
    IF ndarray = None
    THEN /\ last' = Done("set", "none")
         /\ UNCHANGED <<host, hostLen, ndarray, items, length, extended>>
    ELSE IF Len(host) = 0
    THEN Raise("set", "EmptyCollection")
    ELSE IF hostLen # length
    THEN Raise("set", "ShapeMismatch")
    ELSE IF ~foreach_set_ok(host, hostLen, Ravel(ndarray))
    THEN Raise("set", "LengthMismatch")
    ELSE /\ host' = foreach_set(host, hostLen, Ravel(ndarray))
         /\ last' = Done("set", "none")
         /\ UNCHANGED <<hostLen, ndarray, items, length, extended>>

set ==
    IF Len(host) = 0
    THEN Raise("set", "EmptyCollection")
    ELSE IF hostLen # length
    THEN Raise("set", "ShapeMismatch")
    ELSE IF ~foreach_set_ok(host, hostLen, Ravel(ndarray))
    THEN Raise("set", "LengthMismatch")
    ELSE /\ host' = foreach_set(host, hostLen, Ravel(ndarray))
         /\ last' = Done("set", "none")
         /\ UNCHANGED <<hostLen, ndarray, items, length, extended>>

\* ---- PropertyCollection.extend ---------------------------------------------
\* np.append(a, col, axis=1) of a 2-d array a and an (n, 1) column of w
np_append_ok(a, n) == a.ndim = 2 /\ Rows(a) = n
\* a bug: the appended column is 1 whatever normal says
np_append_ones(a, w) ==
    [id |-> NewId(a), ndim |-> 2,
     rows |-> [i \in 1 .. Rows(a) |-> Append(Visible(a)[i], 1)],
     cols |-> a.cols + 1, dtype |-> result_type(a.dtype, "float32")]

np_append(a, w) ==
    [id |-> NewId(a), ndim |-> 2,
     rows |-> [i \in 1 .. Rows(a) |-> Append(Visible(a)[i], w)],
     cols |-> a.cols + 1, dtype |-> result_type(a.dtype, "float32")]

\* a bug: extend appends the column and leaves length as it was
extend_keeps_length(normal) ==
    IF Len(host) = 0
    THEN Raise("extend", "EmptyCollection")
    ELSE IF ndarray = None
    THEN Raise("extend", "NoBuffer")
    ELSE IF LastDim(ndarray) # 3
    THEN Raise("extend", "ShapeMismatch")
    ELSE IF ~np_append_ok(ndarray, items)
    THEN Raise("extend", "DimensionMismatch")
    ELSE /\ ndarray' = np_append(ndarray, IF normal THEN 0 ELSE 1)
         /\ last' = [Done("extend", "none") EXCEPT !.arg = normal]
         /\ UNCHANGED <<host, hostLen, items, length, extended>>

extend(normal) ==
    IF Len(host) = 0
    THEN Raise("extend", "EmptyCollection")
    ELSE IF ndarray = None
    THEN Raise("extend", "NoBuffer")
    ELSE IF LastDim(ndarray) # 3
    THEN Raise("extend", "ShapeMismatch")
    ELSE IF ~np_append_ok(ndarray, items)
    THEN Raise("extend", "DimensionMismatch")
    ELSE /\ ndarray' = np_append(ndarray, IF normal THEN 0 ELSE 1)
         /\ length' = 4
         /\ last' = [Done("extend", "none") EXCEPT !.arg = normal]
         /\ UNCHANGED <<host, hostLen, items, extended>>

\* ---- PropertyCollection.discard --------------------------------------------
\* a bug: discard() copies the three columns it keeps
discard_copies ==
    IF Len(host) = 0
    THEN Raise("discard", "EmptyCollection")
    ELSE IF ndarray = None
    THEN Raise("discard", "NoBuffer")
    ELSE IF LastDim(ndarray) # 4
    THEN Raise("discard", "ShapeMismatch")
    ELSE IF ndarray.ndim # 2
    THEN Raise("discard", "IndexError")
    ELSE /\ ndarray' = [ndarray EXCEPT !.cols = 3, !.id = NewId(ndarray)]
         /\ length' = 3
         /\ last' = Done("discard", "none")
         /\ UNCHANGED <<host, hostLen, items, extended>>

discard ==
    IF Len(host) = 0
    THEN Raise("discard", "EmptyCollection")
    ELSE IF ndarray = None
    THEN Raise("discard", "NoBuffer")
    ELSE IF LastDim(ndarray) # 4
    THEN Raise("discard", "ShapeMismatch")
    ELSE IF ndarray.ndim # 2
    THEN Raise("discard", "IndexError")
    ELSE /\ ndarray' = [ndarray EXCEPT !.cols = 3]
         /\ length' = 3
         /\ last' = Done("discard", "none")
         /\ UNCHANGED <<host, hostLen, items, extended>>

\* ---- PropertyCollection.__setitem__ ----------------------------------------
\* a bug: index assignment assigns the field of the host element as well
__setitem___writes_through(key, t) ==
    IF ndarray = None
    THEN Raise("setitem", "TypeError")
    ELSE IF key >= Rows(ndarray)
    THEN Raise("setitem", "IndexError")
    ELSE /\ ndarray' = [ndarray EXCEPT !.rows[key + 1] =
                [j \in 1 .. BaseCols(ndarray) |->
                    IF j <= ndarray.cols THEN Vec(t, ndarray.cols)[j] ELSE @[j]]]
         /\ host' = IF key < Len(host) THEN [host EXCEPT ![key + 1] = Vec(t, hostLen)]
                    ELSE host
         /\ last' = Done("setitem", "none")
         /\ UNCHANGED <<hostLen, items, length, extended>>

\* self.ndarray[key] = value, value the field value of tag t
__setitem__(key, t) ==
    IF ndarray = None
    THEN Raise("setitem", "TypeError")
    ELSE IF key >= Rows(ndarray)
    THEN Raise("setitem", "IndexError")
    ELSE /\ ndarray' = [ndarray EXCEPT !.rows[key + 1] =
                [j \in 1 .. BaseCols(ndarray) |->
                    IF j <= ndarray.cols THEN Vec(t, ndarray.cols)[j] ELSE @[j]]]
         /\ last' = Done("setitem", "none")
         /\ UNCHANGED <<host, hostLen, items, length, extended>>

\* ---- PropertyCollection.__iadd__ -------------------------------------------
\* self.ndarray += other, in the storage of the array
__iadd__(other) ==
    IF ndarray = None
    THEN Raise("iadd", "TypeError")
    ELSE /\ \A i \in 1 .. Rows(ndarray) : \A j \in 1 .. ndarray.cols :
                ndarray.rows[i][j] + other <= MaxVal
         /\ ndarray' = [ndarray EXCEPT !.rows = [i \in 1 .. Rows(ndarray) |->
                [j \in 1 .. BaseCols(ndarray) |->
                    IF j <= ndarray.cols THEN ndarray.rows[i][j] + other
                    ELSE ndarray.rows[i][j]]]]
         /\ last' = Done("iadd", "none")
         /\ UNCHANGED <<host, hostLen, items, length, extended>>

\* ---- the host application changes the collection --------------------------
\* an element is added (subdivide)
HostAdd ==
    /\ Len(host) < MaxItems
    /\ host' = Append(host, Vec(0, hostLen))
    /\ last' = Done("host", "none")
    /\ UNCHANGED <<hostLen, ndarray, items, length, extended>>

\* the last element is deleted
HostRemove ==
    /\ Len(host) > 0
    /\ host' = SubSeq(host, 1, Len(host) - 1)
    /\ last' = Done("host", "none")
    /\ UNCHANGED <<hostLen, ndarray, items, length, extended>>

\* the field of one element is given another value
HostEdit(key, t) ==
    /\ key < Len(host)
    /\ host[key + 1] # Vec(t, hostLen)
    /\ host' = [host EXCEPT ![key + 1] = Vec(t, hostLen)]
    /\ last' = Done("host", "none")
    /\ UNCHANGED <<hostLen, ndarray, items, length, extended>>

\* the layer the locator names is replaced by one with n components
HostReplaceLayer(n) ==
    /\ n # hostLen
    /\ hostLen' = n
    /\ host' = [i \in 1 .. Len(host) |-> Vec(0, n)]
    /\ last' = Done("host", "none")
    /\ UNCHANGED <<ndarray, items, length, extended>>

Next ==
    \/ get /\ UNCHANGED uvars
    \/ set /\ UNCHANGED uvars
    \/ \E normal \in BOOLEAN : extend(normal) /\ UNCHANGED uvars
    \/ discard /\ UNCHANGED uvars
    \/ \E key \in Keys, t \in Tags : __setitem__(key, t) /\ UNCHANGED uvars
    \/ __iadd__(1) /\ UNCHANGED uvars
    \/ HostAdd /\ UNCHANGED uvars
    \/ HostRemove /\ UNCHANGED uvars
    \/ \E key \in Keys, t \in Tags : HostEdit(key, t) /\ UNCHANGED uvars
    \/ \E n \in HostLens : HostReplaceLayer(n) /\ UNCHANGED uvars

\* a PropertyCollection used through get, set, extend, discard, item
\* assignment and +=; nothing is iterated or indexed for reading
NoView == [id |-> 0, lo |-> 0, hi |-> 0, cols |-> 0]
NoRet == [kind |-> "none", key |-> 0, arr |-> None]
NoWrite == [key |-> 0, val |-> << >>, stage |-> "none"]
Untracked == [key |-> 0, val |-> << >>, stage |-> "off"]
NoPC == [ndarray |-> None, items |-> 0, length |-> 0, extended |-> FALSE]
NoLayer == [domain |-> "none", storage_type |-> "none", data_type |-> "none"]

InitPC ==
    /\ Init
    /\ proxy = "PropertyCollection"
    /\ self_attr = "none"
    /\ layer = NoLayer
    /\ polygons = << >>
    /\ loop_start = NoPC
    /\ loop_total = NoPC
    /\ _index = -1
    /\ loops = NoLoops
    /\ view = NoView
    /\ ret = NoRet
    /\ wrote = NoWrite

Spec == InitPC /\ [][Next]_allvars

\* ==== UnifiedAttribute =====================================================
\* The mesh has one attribute layer; host is its data and hostLen the number
\* of components of the field of its elements.  polygons is mesh.polygons:
\* face i owns the loops loop_start .. loop_start + loop_total - 1, and the
\* data of a CORNER layer has one element per loop.
Domains == {"CORNER", "FACE", "EDGE", "POINT"}
DataTypes == {"FLOAT", "FLOAT_VECTOR"}
\* a bug: the table lists the color kinds only
default_attribute_colors_only(data_type) ==
    IF data_type \in {"BYTE_COLOR", "FLOAT_COLOR"} THEN "color" ELSE "value"

\* the table of default field names, and "value" for a kind it does not list
default_attribute(data_type) ==
    CASE data_type \in {"BYTE_COLOR", "FLOAT_COLOR"} -> "color"
      [] data_type \in {"FLOAT", "INT", "BOOLEAN", "FLOAT4X4", "STRING", "INT8"} -> "value"
      [] data_type \in {"FLOAT_VECTOR", "QUATERNION", "INT16_2D", "INT32_2D", "FLOAT2"}
            -> "vector"
      [] OTHER -> "value"
\* the fields the elements of a layer of this data type have: a color layer
\* has its colors in two color spaces, the layers of float vectors have
\* "vector", every other layer (also one of quaternions or of pairs of
\* integers) has "value"
Fields(data_type) ==
    CASE data_type \in {"BYTE_COLOR", "FLOAT_COLOR"} -> {"color", "color_srgb"}
      [] data_type \in {"FLOAT_VECTOR", "FLOAT2"} -> {"vector"}
      [] OTHER -> {"value"}
\* components of such a field
Components(data_type) ==
    CASE data_type \in {"BYTE_COLOR", "FLOAT_COLOR", "QUATERNION"} -> 4
      [] data_type = "FLOAT_VECTOR" -> 3
      [] data_type \in {"INT16_2D", "INT32_2D", "FLOAT2"} -> 2
      [] OTHER -> 1
\* the field a caller names who names one: the sRGB colors of a color layer,
\* the one field of another layer
Given(data_type) ==
    IF data_type \in {"BYTE_COLOR", "FLOAT_COLOR"} THEN "color_srgb"
    ELSE CHOOSE f \in Fields(data_type) : TRUE
\* the layers a mesh may hold: the supported ones, a curve layer, a layer
\* that stores a single value, and a layer of quaternions
Layers ==
    [domain : Domains, storage_type : {"ARRAY"}, data_type : DataTypes]
    \cup [domain : {"CURVE"}, storage_type : {"ARRAY", "SINGLE"}, data_type : {"FLOAT"}]
    \cup [domain : {"POINT"}, storage_type : {"SINGLE"}, data_type : {"FLOAT"}]
    \cup [domain : {"POINT"}, storage_type : {"ARRAY"}, data_type : {"QUATERNION"}]
\* corner counts of a face (1 stands for a triangle, 2 for a quad)
Corners == {1, 2}
\* the name argument of the constructor: a name in mesh.attributes or not,
\* an index in range or not, a reference to the layer
Names == {"name", "unknown", "index", "badindex", "layer"}
\* the attr argument: absent, a field of the elements, a field they lack
Attrs == {"None", "field", "nofield"}

\* the field of mesh.polygons named attr, one value per face
PolygonField(attr) == [i \in 1 .. Len(polygons) |-> <<polygons[i][attr]>>]

\* PropertyCollection.get of the proxy record p over the collection h of
\* scalar fields of type int: the proxy afterwards and the error raised
pc_get(p, h) ==
    IF Len(h) > 0
    THEN LET realloc == p.ndarray = None \/ Len(h) # p.items \/ 1 # p.length \/ p.extended
             arr == IF realloc THEN np_empty(NewId(p.ndarray), Len(h), "int") ELSE p.ndarray
             its == IF realloc THEN Len(h) ELSE p.items
             len == IF realloc THEN 1 ELSE p.length
         IN [p |-> [ndarray |-> SetShape(WriteRavel(arr, foreach_get(h, 1)), its, len),
                    items |-> its, length |-> len,
                    extended |-> IF realloc THEN FALSE ELSE p.extended],
             err |-> "none"]
    ELSE [p |-> NoPC, err |-> "EmptyCollection"]

\* a bug: get pulls loop_total only when the proxy has none yet
UnifiedAttribute_get_keeps_loop_total ==
    IF layer.domain = "CORNER"
    THEN LET s == pc_get(loop_start, PolygonField("loop_start"))
             t == IF loop_total = NoPC
                  THEN pc_get(loop_total, PolygonField("loop_total"))
                  ELSE [p |-> loop_total, err |-> "none"]
         IN IF s.err # "none" \/ t.err # "none"
            THEN /\ loop_start' = s.p
                 /\ last' = Done("get", "EmptyCollection")
                 /\ UNCHANGED <<loop_total, host, hostLen, ndarray, items, length, extended>>
            ELSE /\ loop_start' = s.p
                 /\ loop_total' = t.p
                 /\ get
    ELSE /\ get
         /\ UNCHANGED <<loop_start, loop_total>>

\* a bug: only the attribute buffer is fetched, the loop buffers stay empty
\* until they are asked for
UnifiedAttribute_get_attribute_only ==
    /\ get
    /\ UNCHANGED <<loop_start, loop_total>>

\* the eager get() calls of the constructor and UnifiedAttribute.get: in the
\* CORNER domain loop_start, loop_total, then loop_attributes; the first
\* that raises ends the call
UnifiedAttribute_get ==
    IF layer.domain = "CORNER"
    THEN LET s == pc_get(loop_start, PolygonField("loop_start"))
             t == pc_get(loop_total, PolygonField("loop_total"))
         IN IF s.err # "none"
            THEN /\ loop_start' = s.p
                 /\ last' = Done("get", s.err)
                 /\ UNCHANGED <<loop_total, host, hostLen, ndarray, items, length, extended>>
            ELSE IF t.err # "none"
            THEN /\ loop_start' = s.p
                 /\ loop_total' = t.p
                 /\ last' = Done("get", t.err)
                 /\ UNCHANGED <<host, hostLen, ndarray, items, length, extended>>
            ELSE /\ loop_start' = s.p
                 /\ loop_total' = t.p
                 /\ get
    ELSE /\ get
         /\ UNCHANGED <<loop_start, loop_total>>

\* the value of row key of the 1-dimensional proxy record p
Item(p, key) == p.ndarray.rows[key + 1][1]

\* a bug: set also pushes the loop_start and loop_total buffers to the faces
UnifiedAttribute_set_pushes_loops ==
    /\ set
    /\ polygons' =
          IF layer.domain = "CORNER" /\ last'.err = "none"
             /\ loop_start.items = Len(polygons) /\ loop_total.items = Len(polygons)
          THEN [i \in 1 .. Len(polygons) |->
                   [loop_start |-> Item(loop_start, i - 1),
                    loop_total |-> Item(loop_total, i - 1)]]
          ELSE polygons
    /\ UNCHANGED <<loop_start, loop_total>>

\* UnifiedAttribute.set: loop_attributes.set() and nothing else
UnifiedAttribute_set ==
    /\ set
    /\ UNCHANGED <<loop_start, loop_total, polygons>>

\* a bug: extend lets go of the loop buffers, which do not fit the new shape
UnifiedAttribute_extend_drops_loops(normal) ==
    /\ extend(normal)
    /\ loop_start' = IF last'.err = "none" THEN NoPC ELSE loop_start
    /\ loop_total' = IF last'.err = "none" THEN NoPC ELSE loop_total

\* UnifiedAttribute.extend: loop_attributes.extend(normal) and nothing else
UnifiedAttribute_extend(normal) ==
    /\ extend(normal)
    /\ UNCHANGED <<loop_start, loop_total>>

\* UnifiedAttribute.discard: loop_attributes.discard() and nothing else
UnifiedAttribute_discard ==
    /\ discard
    /\ UNCHANGED <<loop_start, loop_total>>

\* what a call returns: kind says what it is, key is the index it was given
\* (the arguments, for the constructor)
Returns(kind, key) == [kind |-> kind, key |-> key, arr |-> None]

\* the field the constructor looks for: the attr argument, or the default
Attr(attr) ==
    IF attr = "None" THEN default_attribute(layer.data_type)
    ELSE IF attr = "field" THEN Given(layer.data_type)
    ELSE "nofield"

\* the constructor's call: its arguments are kept in arg
Called(name, attr, err) == [Done("UnifiedAttribute", err) EXCEPT !.arg = <<name, attr>>]

\* the constructor fails with err: no proxy exists afterwards
NoProxy(name, attr, err) ==
    /\ proxy' = "none"
    /\ self_attr' = "none"
    /\ last' = Called(name, attr, err)
    /\ ret' = Returns("none", 0)
    /\ UNCHANGED <<host, hostLen, ndarray, items, length, extended, loop_start, loop_total>>

\* the constructor fails for a field the elements lack: the error names the
\* field
NoField(name, attr) ==
    /\ proxy' = "none"
    /\ self_attr' = "none"
    /\ last' = [Called(name, attr, "UnknownAttribute") EXCEPT !.arg = <<name, attr, Attr(attr)>>]
    /\ ret' = Returns("none", 0)
    /\ UNCHANGED <<host, hostLen, ndarray, items, length, extended, loop_start, loop_total>>

\* a bug: the constructor does not look at the domain and the storage type
UnifiedAttribute_any_domain(name, attr) ==
    /\ proxy = "none"
    /\ IF name \in {"unknown", "badindex"} THEN NoProxy(name, attr, "UnknownAttribute")
       ELSE IF name = "layer" /\ attr # "None" THEN NoProxy(name, attr, "InvalidArgument")
       ELSE IF Len(host) = 0 THEN NoProxy(name, attr, "IndexError")
       ELSE IF Attr(attr) \notin Fields(layer.data_type) THEN NoField(name, attr)
       ELSE /\ get
            /\ proxy' = "UnifiedAttribute"
            /\ self_attr' = Attr(attr)
            /\ ret' = Returns(proxy', <<name, attr>>)
            /\ UNCHANGED <<loop_start, loop_total>>
    /\ UNCHANGED <<loops, layer, polygons, _index, view, wrote>>

\* a bug: the domain and the storage type are tested before the field is
\* looked for
UnifiedAttribute_domain_first(name, attr) ==
    /\ proxy = "none"
    /\ IF name \in {"unknown", "badindex"} THEN NoProxy(name, attr, "UnknownAttribute")
       ELSE IF name = "layer" /\ attr # "None" THEN NoProxy(name, attr, "InvalidArgument")
       ELSE IF layer.domain \notin Domains THEN NoProxy(name, attr, "DomainNotSupported")
       ELSE IF layer.storage_type # "ARRAY" THEN NoProxy(name, attr, "StorageNotSupported")
       ELSE IF Len(host) = 0 THEN NoProxy(name, attr, "IndexError")
       ELSE IF Attr(attr) \notin Fields(layer.data_type) THEN NoField(name, attr)
       ELSE /\ UnifiedAttribute_get
            /\ proxy' = IF last'.err = "none" THEN "UnifiedAttribute" ELSE "none"
            /\ self_attr' = IF last'.err = "none" THEN Attr(attr) ELSE "none"
            /\ ret' = Returns(proxy', <<name, attr>>)
    /\ UNCHANGED <<loops, layer, polygons, _index, view, wrote>>

\* UnifiedAttribute(mesh, name, attr): the layer is looked up, then the field
\* in its first element, then the domain and the storage type are tested,
\* then the buffers are fetched
UnifiedAttribute(name, attr) ==
    /\ proxy = "none"
    /\ IF name \in {"unknown", "badindex"} THEN NoProxy(name, attr, "UnknownAttribute")
       ELSE IF name = "layer" /\ attr # "None" THEN NoProxy(name, attr, "InvalidArgument")
       ELSE IF Len(host) = 0 THEN NoProxy(name, attr, "IndexError")
       ELSE IF Attr(attr) \notin Fields(layer.data_type) THEN NoField(name, attr)
       ELSE IF layer.domain \notin Domains THEN NoProxy(name, attr, "DomainNotSupported")
       ELSE IF layer.storage_type # "ARRAY" THEN NoProxy(name, attr, "StorageNotSupported")
       ELSE /\ UnifiedAttribute_get
            /\ proxy' = IF last'.err = "none" THEN "UnifiedAttribute" ELSE "none"
            /\ self_attr' = IF last'.err = "none" THEN Attr(attr) ELSE "none"
            /\ ret' = Returns(proxy', <<name, attr>>)
    /\ UNCHANGED <<loops, layer, polygons, _index, view, wrote>>

\* ---- the container interface of both proxies --------------------------------
\* A view is a slice of rows lo .. hi - 1 (counted from 0) of the storage id,
\* showing cols components; it is what indexing and iteration hand out, and
\* the caller keeps the last one.  ret is what the last call returned: kind
\* "view" (the view), "value" (a number), "array" (the array arr), the name
\* of a class (the proxy of that class: a UnifiedAttribute, or the
\* PropertyCollection it holds) or "none"; key is the index the call was
\* given.
Slice(a, lo, hi) ==
    [id |-> a.id,
     lo |-> IF lo < Rows(a) THEN lo ELSE Rows(a),
     hi |-> IF hi < Rows(a) THEN hi ELSE Rows(a),
     cols |-> a.cols]

\* len(proxy)
__len__ ==
    IF proxy = "UnifiedAttribute" /\ layer.domain = "CORNER" THEN loop_start.items ELSE items

\* a[lo:hi] = Vec(t, w) in the first w components of the rows
WriteRows(a, lo, hi, w, t) ==
    [a EXCEPT !.rows = [i \in 1 .. Rows(a) |->
        IF lo < i /\ i <= hi
        THEN [j \in 1 .. BaseCols(a) |-> IF j <= w THEN Vec(t, w)[j] ELSE a.rows[i][j]]
        ELSE a.rows[i]]]

\* the caller remembers the last row written through the container interface:
\* stage is "buffer" until a set() copies it, then "host"; stage "off" is a
\* caller that does not keep track
Written(lo, hi, w, t) ==
    IF wrote.stage = "off" THEN wrote
    ELSE IF hi = lo + 1 /\ w = ndarray.cols
    THEN [key |-> lo, val |-> Vec(t, w), stage |-> "buffer"]
    ELSE NoWrite

\* what becomes of that memory after a call that is not such a write
Track ==
    wrote' =
        IF wrote.stage \in {"none", "off"} THEN wrote
        ELSE IF last'.op \in {"extend", "discard", "getitem", "iter", "next", "viewwrite"}
        THEN wrote
        ELSE IF last'.op = "set"
        THEN IF last'.err = "none" THEN [wrote EXCEPT !.stage = "host"] ELSE wrote
        ELSE IF last'.op = "get" /\ last'.err = "none" /\ wrote.stage = "host"
        THEN wrote
        ELSE NoWrite

\* a call that raises err
Fail(op, key, err) ==
    /\ Raise(op, err)
    /\ ret' = Returns("none", key)
    /\ UNCHANGED <<view, wrote>>

\* a bug: indexing hands out a copy of the row
__getitem___copy(key) ==
    IF ndarray = None
    THEN Fail("getitem", key, "TypeError")
    ELSE /\ view' = [Slice(ndarray, key, key + 1) EXCEPT !.id = NewId(ndarray)]
         /\ ret' = Returns("view", key)
         /\ last' = Done("getitem", "none")
         /\ UNCHANGED <<host, hostLen, ndarray, items, length, extended, wrote>>

\* PropertyCollection.__getitem__: a slice never fails on the index
__getitem__(key) ==
    IF ndarray = None
    THEN Fail("getitem", key, "TypeError")
    ELSE /\ view' = Slice(ndarray, key, key + 1)
         /\ ret' = Returns("view", key)
         /\ last' = Done("getitem", "none")
         /\ UNCHANGED <<host, hostLen, ndarray, items, length, extended, wrote>>

\* a bug: a face-corner proxy is indexed by element, as in the other domains
UnifiedAttribute___getitem___by_element(key) ==
    IF ndarray = None
    THEN Fail("getitem", key, "TypeError")
    ELSE IF key >= Rows(ndarray)
    THEN Fail("getitem", key, "IndexError")
    ELSE /\ view' = Slice(ndarray, key, key + 1)
         /\ ret' = Returns("view", key)
         /\ last' = Done("getitem", "none")
         /\ UNCHANGED <<host, hostLen, ndarray, items, length, extended, wrote>>

\* UnifiedAttribute.__getitem__
UnifiedAttribute___getitem__(key) ==
    IF layer.domain = "CORNER"
    THEN IF loop_start.ndarray = None \/ loop_total.ndarray = None \/ ndarray = None
         THEN Fail("getitem", key, "TypeError")
         ELSE IF key >= Rows(loop_start.ndarray) \/ key >= Rows(loop_total.ndarray)
         THEN Fail("getitem", key, "IndexError")
         ELSE /\ view' = Slice(ndarray, Item(loop_start, key),
                                Item(loop_start, key) + Item(loop_total, key))
              /\ ret' = Returns("view", key)
              /\ last' = Done("getitem", "none")
              /\ UNCHANGED <<host, hostLen, ndarray, items, length, extended, wrote>>
    ELSE IF ndarray = None
         THEN Fail("getitem", key, "TypeError")
         ELSE IF key >= Rows(ndarray)
         THEN Fail("getitem", key, "IndexError")
         ELSE /\ view' = IF ndarray.ndim = 1 THEN view ELSE Slice(ndarray, key, key + 1)
              /\ ret' = Returns(IF ndarray.ndim = 1 THEN "value" ELSE "view", key)
              /\ last' = Done("getitem", "none")
              /\ UNCHANGED <<host, hostLen, ndarray, items, length, extended, wrote>>

\* UnifiedAttribute.__setitem__ in the CORNER domain (the other domains and
\* PropertyCollection assign self.ndarray[key], see __setitem__)
UnifiedAttribute___setitem__(key, t) ==
    IF loop_start.ndarray = None \/ loop_total.ndarray = None \/ ndarray = None
    THEN Fail("setitem", key, "TypeError")
    ELSE IF key >= Rows(loop_start.ndarray) \/ key >= Rows(loop_total.ndarray)
    THEN Fail("setitem", key, "IndexError")
    ELSE LET w == Slice(ndarray, Item(loop_start, key),
                        Item(loop_start, key) + Item(loop_total, key))
         IN /\ ndarray' = WriteRows(ndarray, w.lo, w.hi, w.cols, t)
            /\ wrote' = Written(w.lo, w.hi, w.cols, t)
            /\ ret' = Returns("none", key)
            /\ last' = Done("setitem", "none")
            /\ UNCHANGED <<host, hostLen, items, length, extended, view>>

\* a bug: a new iteration goes on where the last one stopped
__iter___resumes ==
    /\ _index' = IF _index < 0 THEN 0 ELSE _index
    /\ ret' = Returns(proxy, 0)
    /\ last' = Done("iter", "none")
    /\ UNCHANGED <<host, hostLen, ndarray, items, length, extended, view, wrote>>

\* __iter__ of both classes
__iter__ ==
    /\ _index' = 0
    /\ ret' = Returns(proxy, 0)
    /\ last' = Done("iter", "none")
    /\ UNCHANGED <<host, hostLen, ndarray, items, length, extended, view, wrote>>

\* a bug: the cursor goes back to the first element when the elements are
\* used up
__next___rewinds ==
    IF _index < 0
    THEN Fail("next", 0, "AttributeError") /\ UNCHANGED _index
    ELSE IF _index >= __len__
    THEN /\ _index' = 0
         /\ Fail("next", _index, "StopIteration")
    ELSE /\ _index' = _index + 1
         /\ view' = IF proxy = "UnifiedAttribute" /\ layer.domain = "CORNER"
                    THEN Slice(ndarray, Item(loop_start, _index),
                               Item(loop_start, _index) + Item(loop_total, _index))
                    ELSE Slice(ndarray, _index, _index + 1)
         /\ ret' = Returns("view", _index)
         /\ last' = Done("next", "none")
         /\ UNCHANGED <<host, hostLen, ndarray, items, length, extended, wrote>>

\* __next__ of both classes: the cursor moves on before the test
__next__ ==
    IF _index < 0
    THEN Fail("next", 0, "AttributeError") /\ UNCHANGED _index
    ELSE /\ _index' = _index + 1
         /\ IF _index >= __len__
            THEN Fail("next", _index, "StopIteration")
            ELSE /\ view' = IF proxy = "UnifiedAttribute" /\ layer.domain = "CORNER"
                            THEN Slice(ndarray, Item(loop_start, _index),
                                       Item(loop_start, _index) + Item(loop_total, _index))
                            ELSE Slice(ndarray, _index, _index + 1)
                 /\ ret' = Returns("view", _index)
                 /\ last' = Done("next", "none")
                 /\ UNCHANGED <<host, hostLen, ndarray, items, length, extended, wrote>>

\* the caller assigns through the view it kept: view[:] = Vec(t, cols); the
\* proxy's buffer changes only when it still lives in the view's storage
ViewWrite(t) ==
    /\ view.hi > view.lo
    /\ ret' = Returns("none", view.lo)
    /\ last' = Done("viewwrite", "none")
    /\ IF view.id = ndarray.id
       THEN /\ ndarray' = WriteRows(ndarray, view.lo, view.hi, view.cols, t)
            /\ wrote' = Written(view.lo, view.hi, view.cols, t)
       ELSE UNCHANGED <<ndarray, wrote>>
    /\ UNCHANGED <<host, hostLen, items, length, extended, view>>

\* ---- arithmetic operators --------------------------------------------------
RECURSIVE Sum(_)
Sum(f) == IF Len(f) = 0 THEN 0 ELSE f[Len(f)] + Sum(SubSeq(f, 1, Len(f) - 1))

\* the operators +, -, *, / and the number each is given
Ops == {"add", "sub", "mul", "truediv"}
Operand(o) == IF o \in {"add", "sub"} THEN 1 ELSE 2
\* the m x m matrix that moves component k to component k % m + 1
Cycle(m) == [k \in 1 .. m |-> [j \in 1 .. m |-> IF j = (k % m) + 1 THEN 1 ELSE 0]]
Matrices == {Cycle(3), Cycle(4)}

\* x + other, x - other, x * other, x / other
ufunc(o, x, other) ==
    CASE o = "add" -> x + other
      [] o = "sub" -> x - other
      [] o = "mul" -> x * other
      [] OTHER -> x \div other
\* the result is a value of the model: within 0 .. MaxVal, a quotient whole
Exact(o, x, other) ==
    /\ ufunc(o, x, other) \in 0 .. MaxVal
    /\ o = "truediv" => x % other = 0
\* the rows a shows, after the operator
Applied(o, a, other) ==
    [i \in 1 .. Rows(a) |-> [j \in 1 .. a.cols |-> ufunc(o, a.rows[i][j], other)]]
\* the rows new in the components a shows, the rest of the storage as it was
WriteVisible(a, new) ==
    [a EXCEPT !.rows = [i \in 1 .. Rows(a) |->
        [j \in 1 .. BaseCols(a) |-> IF j <= a.cols THEN new[i][j] ELSE a.rows[i][j]]]]

\* np.dot of a vector and a matrix
DotRow(row, M) ==
    [j \in 1 .. Len(M) |-> Sum([k \in 1 .. Len(row) |-> row[k] * M[k][j]])]
\* np.dot(a, M) is defined when the last dimension of a is the size of M
np_dot_ok(a, M) == LastDim(a) = Len(M)
\* the rows of np.dot(a, M); a 1-dimensional a is one vector
np_dot(a, M) ==
    IF a.ndim = 2
    THEN [i \in 1 .. Rows(a) |-> DotRow(Visible(a)[i], M)]
    ELSE LET v == DotRow([i \in 1 .. Rows(a) |-> a.rows[i][1]], M)
         IN [j \in 1 .. Len(M) |-> <<v[j]>>]
\* the call of an operator: arg is the size of the matrix or the number
Operated(op, arg) == [Done(op, "none") EXCEPT !.arg = arg]
\* an array in storage of its own (the operators are given float32 matrices
\* and Python numbers, which leave the type of a float32 buffer)
NewArray(a, rows) ==
    [id |-> NewId(a), ndim |-> a.ndim, rows |-> rows, cols |-> a.cols, dtype |-> a.dtype]

\* a bug: @ multiplies the buffer itself and returns it
__matmul___in_place(M) ==
    IF ndarray = None
    THEN Raise("matmul", "TypeError") /\ ret' = Returns("none", 0)
    ELSE IF ~np_dot_ok(ndarray, M)
    THEN Raise("matmul", "ValueError") /\ ret' = Returns("none", 0)
    ELSE /\ ndarray' = WriteVisible(ndarray, np_dot(ndarray, M))
         /\ ret' = [kind |-> "array", key |-> 0, arr |-> ndarray']
         /\ last' = Operated("matmul", Len(M))
         /\ UNCHANGED <<host, hostLen, items, length, extended>>

\* PropertyCollection.__matmul__ (UnifiedAttribute.__matmul__ returns what
\* it returns)
__matmul__(M) ==
    IF ndarray = None
    THEN Raise("matmul", "TypeError") /\ ret' = Returns("none", 0)
    ELSE IF ~np_dot_ok(ndarray, M)
    THEN Raise("matmul", "ValueError") /\ ret' = Returns("none", 0)
    ELSE /\ ret' = [kind |-> "array", key |-> 0, arr |-> NewArray(ndarray, np_dot(ndarray, M))]
         /\ last' = Operated("matmul", Len(M))
         /\ UNCHANGED <<host, hostLen, ndarray, items, length, extended>>

\* PropertyCollection.__imatmul__: np.dot(..., out=self.ndarray) wants a
\* C-contiguous out
__imatmul__(M) ==
    IF ndarray = None
    THEN Raise("imatmul", "TypeError")
    ELSE IF ~np_dot_ok(ndarray, M) \/ ~Contiguous(ndarray)
    THEN Raise("imatmul", "ValueError")
    ELSE /\ ndarray' = WriteVisible(ndarray, np_dot(ndarray, M))
         /\ last' = Operated("imatmul", Len(M))
         /\ UNCHANGED <<host, hostLen, items, length, extended>>

\* PropertyCollection.__add__, __sub__, __mul__, __truediv__
__op__(o, other) ==
    IF ndarray = None
    THEN Raise(o, "TypeError") /\ ret' = Returns("none", 0)
    ELSE /\ \A i \in 1 .. Rows(ndarray) : \A j \in 1 .. ndarray.cols :
                Exact(o, ndarray.rows[i][j], other)
         /\ ret' = [kind |-> "array", key |-> 0,
                    arr |-> NewArray(ndarray, Applied(o, ndarray, other))]
         /\ last' = Operated(o, other)
         /\ UNCHANGED <<host, hostLen, ndarray, items, length, extended>>

\* PropertyCollection.__iadd__, __isub__, __imul__, __itruediv__
__iop__(o, other) ==
    IF ndarray = None
    THEN Raise("i" \o o, "TypeError")
    ELSE /\ \A i \in 1 .. Rows(ndarray) : \A j \in 1 .. ndarray.cols :
                Exact(o, ndarray.rows[i][j], other)
         /\ ndarray' = WriteVisible(ndarray, Applied(o, ndarray, other))
         /\ last' = Operated("i" \o o, other)
         /\ UNCHANGED <<host, hostLen, items, length, extended>>

\* what an in-place operator returns: the proxy, an error aside
ReturnsProxy(which) ==
    ret' = IF last'.err = "none" THEN Returns(which, 0) ELSE Returns("none", 0)

\* a bug: the in-place operators of UnifiedAttribute return what those of
\* its loop_attributes return
UnifiedAttribute___imatmul___forwards(M) ==
    __imatmul__(M) /\ ReturnsProxy("PropertyCollection")

\* UnifiedAttribute.__imatmul__
UnifiedAttribute___imatmul__(M) ==
    __imatmul__(M) /\ ReturnsProxy("UnifiedAttribute")

\* UnifiedAttribute.__iadd__, __isub__, __imul__, __itruediv__
UnifiedAttribute___iop__(o, other) ==
    __iop__(o, other) /\ ReturnsProxy("UnifiedAttribute")

\* ---- a mesh, its attribute layer and one proxy over it ------------------------
\* the faces of a mesh with at most MaxItems loops, as corner counts
FaceSeqs ==
    {f \in UNION {[1 .. n -> Corners] : n \in 0 .. MaxItems} : Sum(f) <= MaxItems}
Polygons(f) ==
    [i \in 1 .. Len(f) |-> [loop_start |-> Sum(SubSeq(f, 1, i - 1)), loop_total |-> f[i]]]

\* a mesh with one attribute layer and no proxy yet
InitMesh ==
    /\ layer \in Layers
    /\ hostLen = Components(layer.data_type)
    /\ polygons \in IF layer.domain = "CORNER" THEN {Polygons(f) : f \in FaceSeqs} ELSE {<< >>}
    /\ host \in IF layer.domain = "CORNER"
                THEN {[i \in 1 .. Sum([j \in 1 .. Len(polygons) |-> polygons[j].loop_total])
                         |-> Vec(0, hostLen)]}
                ELSE {[i \in 1 .. n |-> Vec(0, hostLen)] : n \in 0 .. MaxItems}
    /\ ndarray = None
    /\ items = 0
    /\ length = 0
    /\ extended = FALSE
    /\ last = [op |-> "init", err |-> "none", arg |-> FALSE, was |-> 0]
    /\ loop_start = NoPC
    /\ loop_total = NoPC
    /\ self_attr = "none"
    /\ _index = -1
    /\ loops = NoLoops
    /\ view = NoView
    /\ ret = NoRet

InitUA ==
    /\ InitMesh
    /\ proxy = "none"
    /\ wrote = Untracked

\* the caller lets go of a view when the proxy leaves the storage it shows
Kept == IF view.id = ndarray'.id THEN view ELSE NoView

IsUA == proxy = "UnifiedAttribute"
IsLoop == IsUA /\ layer.domain = "CORNER"

Construct ==
    \E name \in Names, attr \in Attrs : UnifiedAttribute(name, attr)

Get ==
    /\ proxy # "none"
    /\ IF IsUA THEN UnifiedAttribute_get ELSE get /\ UNCHANGED <<loop_start, loop_total>>
    /\ ret' = NoRet
    /\ view' = Kept
    /\ Track
    /\ UNCHANGED <<loops, proxy, self_attr, layer, polygons, _index>>

Set ==
    /\ proxy # "none"
    /\ IF IsUA THEN UnifiedAttribute_set
               ELSE set /\ UNCHANGED <<loop_start, loop_total, polygons>>
    /\ ret' = NoRet
    /\ Track
    /\ UNCHANGED <<loops, proxy, self_attr, layer, _index, view>>

Extend ==
    /\ proxy # "none"
    /\ \E normal \in BOOLEAN :
          IF IsUA THEN UnifiedAttribute_extend(normal)
                  ELSE extend(normal) /\ UNCHANGED <<loop_start, loop_total>>
    /\ ret' = NoRet
    /\ view' = Kept
    /\ Track
    /\ UNCHANGED <<loops, proxy, self_attr, layer, polygons, _index>>

Discard ==
    /\ proxy # "none"
    /\ IF IsUA THEN UnifiedAttribute_discard
               ELSE discard /\ UNCHANGED <<loop_start, loop_total>>
    /\ ret' = NoRet
    /\ Track
    /\ UNCHANGED <<loops, proxy, self_attr, layer, polygons, _index, view>>

InPlaceAdd ==
    /\ proxy # "none"
    /\ __iadd__(1)
    /\ ret' = Returns(proxy, 0)
    /\ Track
    /\ UNCHANGED <<loops, proxy, self_attr, layer, polygons, loop_start, loop_total, _index, view>>

GetItem ==
    /\ proxy # "none"
    /\ \E key \in Keys :
          IF IsUA THEN UnifiedAttribute___getitem__(key) ELSE __getitem__(key)
    /\ UNCHANGED <<loops, proxy, self_attr, layer, polygons, loop_start, loop_total, _index>>

SetItem ==
    /\ proxy # "none"
    /\ \E key \in Keys, t \in Tags :
          IF IsLoop
          THEN UnifiedAttribute___setitem__(key, t)
          ELSE /\ __setitem__(key, t)
               /\ ret' = Returns("none", key)
               /\ wrote' = IF last'.err = "none"
                           THEN Written(key, key + 1, ndarray.cols, t) ELSE wrote
               /\ UNCHANGED view
    /\ UNCHANGED <<loops, proxy, self_attr, layer, polygons, loop_start, loop_total, _index>>

Iter ==
    /\ proxy # "none"
    /\ __iter__
    /\ UNCHANGED <<loops, proxy, self_attr, layer, polygons, loop_start, loop_total>>

NextItem ==
    /\ proxy # "none"
    /\ _index <= MaxItems
    /\ __next__
    /\ UNCHANGED <<loops, proxy, self_attr, layer, polygons, loop_start, loop_total>>

\* caller c starts a for loop over the proxy: iter(proxy)
IterBy(c) ==
    /\ proxy # "none"
    /\ __iter__
    /\ loops' = [d \in Callers |->
          IF d = c THEN [Idle EXCEPT !.stage = "running"]
          ELSE IF loops[d].stage # "running" THEN loops[d]
          ELSE IF loops[d].inner = "none"
          THEN [loops[d] EXCEPT !.shared = TRUE, !.inner = "running",
                                !.mark = Len(loops[d].seen)]
          ELSE IF loops[d].inner = "done"
          THEN [loops[d] EXCEPT !.inner = "running"]
          ELSE loops[d]]
    /\ UNCHANGED <<proxy, self_attr, layer, polygons, loop_start, loop_total>>

\* the for loop of caller c asks for its next element, and is over when
\* StopIteration is raised
NextBy(c) ==
    /\ proxy # "none"
    /\ loops[c].stage = "running"
    /\ Len(loops[c].seen) <= MaxItems
    /\ __next__
    /\ LET stop == _index >= __len__
       IN loops' = [d \in Callers |->
             IF d = c
             THEN [loops[d] EXCEPT
                      !.stage = IF stop THEN "ended" ELSE "running",
                      !.seen = IF stop THEN @ ELSE Append(@, _index),
                      !.inner = IF @ = "running" THEN "mixed" ELSE @]
             ELSE IF loops[d].stage # "running" THEN loops[d]
             ELSE IF loops[d].inner = "running"
             THEN [loops[d] EXCEPT !.inner = IF stop THEN "done" ELSE "running"]
             ELSE [loops[d] EXCEPT !.inner = "mixed"]]
    /\ UNCHANGED <<proxy, self_attr, layer, polygons, loop_start, loop_total>>

WriteView ==
    /\ proxy # "none"
    /\ view.lo \in Keys
    /\ \E t \in Tags : ViewWrite(t)
    /\ UNCHANGED <<loops, proxy, self_attr, layer, polygons, loop_start, loop_total, _index>>

\* the host adds a face with k corners to a mesh with a CORNER layer
MeshAddFace(k) ==
    /\ proxy # "none"
    /\ layer.domain = "CORNER"
    /\ Len(host) + k <= MaxItems
    /\ polygons' = Append(polygons, [loop_start |-> Len(host), loop_total |-> k])
    /\ host' = host \o [i \in 1 .. k |-> Vec(0, hostLen)]
    /\ last' = Done("host", "none")
    /\ ret' = NoRet
    /\ Track
    /\ UNCHANGED <<hostLen, ndarray, items, length, extended,
                   loops, proxy, self_attr, layer, loop_start, loop_total, _index, view>>

\* the host deletes the last face and its loops
MeshRemoveFace ==
    /\ proxy # "none"
    /\ layer.domain = "CORNER"
    /\ Len(polygons) > 0
    /\ polygons' = SubSeq(polygons, 1, Len(polygons) - 1)
    /\ host' = SubSeq(host, 1, polygons[Len(polygons)].loop_start)
    /\ last' = Done("host", "none")
    /\ ret' = NoRet
    /\ Track
    /\ UNCHANGED <<hostLen, ndarray, items, length, extended,
                   loops, proxy, self_attr, layer, loop_start, loop_total, _index, view>>

\* the host adds, deletes or edits an element of a layer of another domain,
\* or edits a loop
MeshChange ==
    /\ proxy # "none"
    /\ \/ layer.domain # "CORNER" /\ HostAdd
       \/ layer.domain # "CORNER" /\ HostRemove
       \/ \E key \in Keys, t \in Tags : HostEdit(key, t)
    /\ ret' = NoRet
    /\ Track
    /\ UNCHANGED <<loops, proxy, self_attr, layer, polygons, loop_start, loop_total, _index, view>>

NextUA ==
    \/ Construct
    \/ Get
    \/ Set
    \/ Extend
    \/ Discard
    \/ InPlaceAdd
    \/ SetItem
    \/ \E k \in Corners : MeshAddFace(k)
    \/ MeshRemoveFace
    \/ MeshChange

SpecUA == InitUA /\ [][NextUA]_allvars

\* ---- the container interface: indexing, item assignment, iteration ----------
\* a PropertyCollection over a POINT layer, or a UnifiedAttribute still to be
\* constructed over a layer of a supported domain; the caller follows what
\* it assigns
InitItems ==
    /\ InitMesh
    /\ layer.domain \in Domains /\ layer.storage_type = "ARRAY"
    /\ layer.data_type \in DataTypes
    /\ proxy \in IF layer.domain = "POINT" THEN {"none", "PropertyCollection"} ELSE {"none"}
    /\ wrote = NoWrite

NextItems ==
    \/ Construct
    \/ Get
    \/ Set
    \/ Extend
    \/ Discard
    \/ GetItem
    \/ SetItem
    \/ Iter
    \/ NextItem
    \/ WriteView

SpecItems == InitItems /\ [][NextItems]_allvars

\* ---- arithmetic on the buffer -----------------------------------------------
Matmul ==
    /\ proxy # "none"
    /\ \E M \in Matrices : __matmul__(M)
    /\ UNCHANGED <<loops, proxy, self_attr, layer, polygons, loop_start, loop_total, _index, view, wrote>>

IMatmul ==
    /\ proxy # "none"
    /\ \E M \in Matrices :
          IF IsUA THEN UnifiedAttribute___imatmul__(M)
                  ELSE __imatmul__(M) /\ ReturnsProxy("PropertyCollection")
    /\ UNCHANGED <<loops, proxy, self_attr, layer, polygons, loop_start, loop_total, _index, view, wrote>>

Arith ==
    /\ proxy # "none"
    /\ \E o \in Ops : __op__(o, Operand(o))
    /\ UNCHANGED <<loops, proxy, self_attr, layer, polygons, loop_start, loop_total, _index, view, wrote>>

IArith ==
    /\ proxy # "none"
    /\ \E o \in Ops :
          IF IsUA THEN UnifiedAttribute___iop__(o, Operand(o))
                  ELSE __iop__(o, Operand(o)) /\ ReturnsProxy("PropertyCollection")
    /\ UNCHANGED <<loops, proxy, self_attr, layer, polygons, loop_start, loop_total, _index, view, wrote>>

\* a proxy of either class, fetched, extended, discarded, indexed, and used
\* in arithmetic; the caller does not follow what it assigns
InitArith ==
    /\ InitMesh
    /\ layer.domain \in Domains /\ layer.storage_type = "ARRAY"
    /\ layer.data_type \in DataTypes
    /\ proxy \in IF layer.domain = "POINT" THEN {"none", "PropertyCollection"} ELSE {"none"}
    /\ wrote = Untracked

NextArith ==
    \/ Construct
    \/ Get
    \/ Extend
    \/ GetItem
    \/ Matmul
    \/ IMatmul
    \/ Arith
    \/ IArith

SpecArith == InitArith /\ [][NextArith]_allvars

\* ---- the faces of a face-corner proxy ------------------------------------------
\* a face index: every face a mesh of the model may have, and one past them
FaceKeys == 0 .. MaxItems

GetFace ==
    /\ IsLoop
    /\ \E key \in FaceKeys : UnifiedAttribute___getitem__(key)
    /\ UNCHANGED <<loops, proxy, self_attr, layer, polygons, loop_start, loop_total, _index>>

SetFace ==
    /\ IsLoop
    /\ \E key \in FaceKeys, t \in Tags : UnifiedAttribute___setitem__(key, t)
    /\ UNCHANGED <<loops, proxy, self_attr, layer, polygons, loop_start, loop_total, _index>>

\* the caller assigns through the window it was given
WriteWindow ==
    /\ IsLoop
    /\ \E t \in Tags : ViewWrite(t)
    /\ UNCHANGED <<loops, proxy, self_attr, layer, polygons, loop_start, loop_total, _index>>

\* a mesh with faces of one to MaxItems loops and a layer of the CORNER
\* domain; the proxy is constructed, indexed by face, written through the
\* windows and by index assignment, pushed and fetched again
InitFaces ==
    /\ InitMesh
    /\ layer.domain = "CORNER"
    /\ proxy = "none"
    /\ wrote = Untracked

NextFaces ==
    \/ Construct
    \/ Get
    \/ Set
    \/ GetFace
    \/ SetFace
    \/ WriteWindow

SpecFaces == InitFaces /\ [][NextFaces]_allvars

\* ---- the layers of every data type -------------------------------------------
\* the data types of the table whose field is a number or a vector of up to
\* four numbers, and one the table does not list (taken to hold a number)
Kinds ==
    {"BYTE_COLOR", "FLOAT_COLOR", "FLOAT", "INT", "BOOLEAN", "FLOAT_VECTOR", "QUATERNION",
     "INT8", "INT16_2D", "INT32_2D", "FLOAT2", "UNLISTED"}

\* a mesh with one layer of any of these types on its points or faces, and
\* no proxy yet
InitKinds ==
    /\ layer \in [domain : {"POINT", "FACE"}, storage_type : {"ARRAY"}, data_type : Kinds]
    /\ hostLen = Components(layer.data_type)
    /\ polygons = << >>
    /\ host \in {[i \in 1 .. n |-> Vec(0, hostLen)] : n \in 0 .. MaxItems}
    /\ ndarray = None
    /\ items = 0
    /\ length = 0
    /\ extended = FALSE
    /\ last = [op |-> "init", err |-> "none", arg |-> FALSE, was |-> 0]
    /\ loop_start = NoPC
    /\ loop_total = NoPC
    /\ self_attr = "none"
    /\ _index = -1
    /\ loops = NoLoops
    /\ view = NoView
    /\ ret = NoRet
    /\ proxy = "none"
    /\ wrote = Untracked

\* the host removes the layer and adds one of the same name and another data
\* type, whose elements have the field of the proxy with as many components
MeshRetype(k) ==
    /\ proxy # "none"
    /\ k # layer.data_type
    /\ Components(k) = hostLen
    /\ self_attr \in Fields(k)
    /\ layer' = [layer EXCEPT !.data_type = k]
    /\ host' = [i \in 1 .. Len(host) |-> Vec(0, hostLen)]
    /\ last' = Done("host", "none")
    /\ ret' = NoRet
    /\ UNCHANGED <<hostLen, ndarray, items, length, extended, loops, proxy, self_attr, polygons,
                   loop_start, loop_total, _index, view, wrote>>

NextKinds ==
    \/ Construct
    \/ Get
    \/ Set
    \/ \E k \in Kinds : MeshRetype(k)

SpecKinds == InitKinds /\ [][NextKinds]_allvars

\* ---- every operation of both proxies ------------------------------------------
\* a proxy of either class in the hands of one of two callers: one uses the
\* container interface and follows what it assigns, the other does
\* arithmetic and does not
InitAll == InitItems \/ InitArith

NextAll ==
    \/ Construct
    \/ Get
    \/ Extend
    \/ GetItem
    \/ wrote.stage # "off" /\ Set
    \/ wrote.stage # "off" /\ Discard
    \/ wrote.stage # "off" /\ SetItem
    \/ wrote.stage # "off" /\ Iter
    \/ wrote.stage # "off" /\ NextItem
    \/ wrote.stage # "off" /\ WriteView
    \/ wrote.stage = "off" /\ Matmul
    \/ wrote.stage = "off" /\ IMatmul
    \/ wrote.stage = "off" /\ Arith
    \/ wrote.stage = "off" /\ IArith

SpecAll == InitAll /\ [][NextAll]_allvars

\* ---- construction ---------------------------------------------------------------
\* a mesh with any of the layers, over which a UnifiedAttribute is
\* constructed and then used
InitNew == InitUA

NextNew ==
    \/ Construct
    \/ Get
    \/ Set
    \/ SetItem

SpecNew == InitNew /\ [][NextNew]_allvars

\* ---- views the caller holds on to ----------------------------------------------
\* get() and extend() of a caller that keeps the view it has, whatever
\* becomes of the buffer
GetHolding ==
    /\ proxy # "none"
    /\ IF IsUA THEN UnifiedAttribute_get ELSE get /\ UNCHANGED <<loop_start, loop_total>>
    /\ ret' = NoRet
    /\ Track
    /\ UNCHANGED <<loops, proxy, self_attr, layer, polygons, _index, view>>

ExtendHolding ==
    /\ proxy # "none"
    /\ \E normal \in BOOLEAN :
          IF IsUA THEN UnifiedAttribute_extend(normal)
                  ELSE extend(normal) /\ UNCHANGED <<loop_start, loop_total>>
    /\ ret' = NoRet
    /\ Track
    /\ UNCHANGED <<loops, proxy, self_attr, layer, polygons, _index, view>>

InitViews == InitArith

NextViews ==
    \/ Construct
    \/ GetHolding
    \/ Set
    \/ ExtendHolding
    \/ Discard
    \/ GetItem
    \/ Iter
    \/ NextItem
    \/ WriteView

SpecViews == InitViews /\ [][NextViews]_allvars

\* ---- for loops over one proxy ---------------------------------------------------
\* two callers loop over a proxy whose buffer is fetched while no loop runs
Quiet == \A c \in Callers : loops[c].stage # "running"

InitIter == InitArith

NextIter ==
    \/ Quiet /\ Construct
    \/ Quiet /\ Get
    \/ \E c \in Callers : IterBy(c)
    \/ \E c \in Callers : NextBy(c)

SpecIter == InitIter /\ [][NextIter]_allvars

TypeOKUA ==
    /\ TypeOK
    /\ proxy \in {"none", "PropertyCollection", "UnifiedAttribute"}
    /\ self_attr \in {"none", "color", "color_srgb", "vector", "value"}
    /\ _index \in -1 .. MaxItems + 1
    /\ view.id \in 0 .. 3
    /\ ndarray.id \in 0 .. 3
    /\ wrote.stage \in {"none", "buffer", "host", "off"}

\* ==== properties ===========================================================

Returned(op) == last.op = op /\ last.err = "none"
Raised(op, err) == last.op = op /\ last.err = err

\* C1: after every successful get(), items is the live element count, length
\* the live component count, and the buffer holds the live field values of the
\* host elements in element order
C1_GetMirrorsHost ==
    Returned("get") =>
        /\ items = Len(host)
        /\ length = hostLen
        /\ Visible(ndarray) = host

\* C2: a successful get() allocates exactly when the proxy has no buffer, or
\* the live element count differs from items, or the live component count
\* differs from length, or extended is set; otherwise it keeps the buffer,
\* items and length, and a get() that follows a successful get() with no host
\* change in between changes nothing
C2_AllocatesExactlyWhenNeeded ==
    [][(last'.op = "get" /\ last'.err = "none") =>
          /\ (ndarray'.id # ndarray.id) <=>
                 (ndarray = None \/ Len(host) # items \/ hostLen # length \/ extended)
          /\ (ndarray'.id = ndarray.id) => (items' = items /\ length' = length)
          /\ Returned("get") => UNCHANGED <<ndarray, items, length>>]_vars

\* a get() has returned with the storage the proxy already had
C2_Witness == Returned("get") /\ last.was = ndarray.id /\ ndarray # None

\* C3: a successful extend() sets the extended mark, and the next successful
\* get(), also one that follows a discard(), allocates and clears the mark
C3_ExtendMarksBuffer ==
    [][/\ (last'.op = "extend" /\ last'.err = "none") => extended'
       /\ ((Returned("extend") \/ Returned("discard")) /\ last'.op = "get" /\ last'.err = "none")
              => (ndarray'.id # ndarray.id /\ ~extended')]_vars

\* C4: whenever the proxy has a buffer, the buffer has items * length
\* components
C4_SizeIsItemsTimesLength == ndarray # None => Size(ndarray) = items * length

\* the buffer after extend() has changed its shape
C4_Witness == Returned("extend") /\ ndarray # None /\ Size(ndarray) = 4 * Len(host)

\* C5 as stated: set() on a non-empty collection raises ShapeMismatch whenever
\* the live component count differs from length, and then writes nothing;
\* once discard() has made length the live component count, set() succeeds
C5_SetAfterDiscardSucceeds ==
    [][(last'.op = "set" /\ Len(host) > 0) =>
          /\ hostLen # length => (last'.err = "ShapeMismatch" /\ host' = host)
          /\ (Returned("discard") /\ hostLen = length) => last'.err = "none"]_vars

\* C5, amended: set() on a non-empty collection raises ShapeMismatch exactly
\* when the live component count differs from length, and then writes nothing;
\* once discard() has made length the live component count, set() does not
\* raise ShapeMismatch, and it succeeds when the live element count is items
C5_SetShapeMismatch ==
    [][(last'.op = "set" /\ Len(host) > 0) =>
          /\ (last'.err = "ShapeMismatch") <=> (hostLen # length)
          /\ hostLen # length => host' = host
          /\ (Returned("discard") /\ hostLen = length /\ items = Len(host))
                 => last'.err = "none"]_vars

\* set() has raised ShapeMismatch between extend() and discard() on a
\* 3-component field
C5_Witness ==
    /\ Raised("set", "ShapeMismatch")
    /\ hostLen = 3 /\ length = 4 /\ ndarray.cols = 4 /\ Len(host) > 0

C7_GetOnEmptyClears ==
    /\ last.op = "get" => ((last.err = "EmptyCollection") <=> (Len(host) = 0))
    /\ Raised("get", "EmptyCollection") =>
           (items = 0 /\ length = 0 /\ ~extended /\ ndarray = None)

\* get() has raised EmptyCollection on a proxy that held a buffer
C7_Witness == Raised("get", "EmptyCollection") /\ last.was # 0

\* C8: set(), extend() and discard() on a collection without elements raise
\* EmptyCollection, with or without a buffer, matching length or not
C8_EmptyCheckFirst ==
    (last.op \in {"set", "extend", "discard"} /\ Len(host) = 0)
        => last.err = "EmptyCollection"

\* set() has raised EmptyCollection on a proxy that holds a buffer whose
\* length is not the live component count
C8_Witness ==
    Raised("set", "EmptyCollection") /\ ndarray # None /\ length # hostLen

\* C9: on a non-empty collection extend() succeeds exactly when there is a
\* buffer with last dimension 3, discard() exactly when there is a buffer with
\* last dimension 4; without a buffer they raise NoBuffer, with another last
\* dimension ShapeMismatch; extend sets length = 4, discard length = 3
C9_ExtendDiscardPreconditions ==
    [][Len(host) > 0 =>
          /\ last'.op = "extend" =>
                /\ last'.err = IF ndarray = None THEN "NoBuffer"
                               ELSE IF LastDim(ndarray) = 3 THEN "none"
                               ELSE "ShapeMismatch"
                /\ last'.err = "none" => length' = 4
          /\ last'.op = "discard" =>
                /\ last'.err = IF ndarray = None THEN "NoBuffer"
                               ELSE IF LastDim(ndarray) = 4 THEN "none"
                               ELSE "ShapeMismatch"
                /\ last'.err = "none" => length' = 3]_vars

\* C10: extend() keeps the three components of every element and appends a
\* 4th that is 1, or 0 for normal=True, and sets length = 4; a discard() that
\* follows shows exactly the first three components again, with length = 3
C10_ExtendDiscardInverse ==
    [][/\ (last'.op = "extend" /\ last'.err = "none") =>
              /\ length' = 4 /\ ndarray'.ndim = 2 /\ ndarray'.cols = 4
              /\ Rows(ndarray') = Rows(ndarray)
              /\ \A i \in 1 .. Rows(ndarray) :
                     Visible(ndarray')[i] =
                         Append(Visible(ndarray)[i], IF last'.arg THEN 0 ELSE 1)
       /\ (Returned("extend") /\ last'.op = "discard" /\ last'.err = "none") =>
              /\ length' = 3 /\ ndarray'.ndim = 2 /\ ndarray'.cols = 3
              /\ Visible(ndarray') =
                     [i \in 1 .. Rows(ndarray) |-> SubSeq(Visible(ndarray)[i], 1, 3)]]_vars

\* discard() has returned after extend(normal=True): the buffer shows the
\* host's 3-component values and hides the column of zeros
C10_Witness ==
    /\ Returned("discard") /\ hostLen = 3 /\ length = 3
    /\ Visible(ndarray) = host
    /\ \A i \in 1 .. Rows(ndarray) : ndarray.rows[i] = Append(host[i], 0)

\* C11: round trip: a get() that returns, followed at once by set() with no
\* change of the buffer in between, succeeds and leaves the field of every
\* element of the host as it was before the get()
C11_GetSetRoundTrip ==
    [][(Returned("get") /\ last'.op = "set")
        => (last'.err = "none" /\ host' = host)]_vars

Values(p) == Visible(p.ndarray)

\* C18: UnifiedAttribute.get() pulls and UnifiedAttribute.set() pushes all
\* constituent buffers: after either has returned in the CORNER domain the
\* loop_start and loop_total buffers hold what the faces of the host hold
C18_GetSetAllBuffers ==
    (IsLoop /\ (Returned("get") \/ Returned("set")))
        => /\ Values(loop_start) = PolygonField("loop_start")
           /\ Values(loop_total) = PolygonField("loop_total")

\* C18 as the code has it: a get() that returns has pulled loop_start and
\* loop_total (CORNER domain) and has fitted the attribute buffer to the
\* layer; set() pushes the attribute buffer only, in every domain, and leaves
\* the faces of the host and the two loop buffers alone
C18_GetAllSetAttributeOnly ==
    [][/\ (proxy' = "UnifiedAttribute" /\ last'.op = "get" /\ last'.err = "none")
           => /\ items' = Len(host) /\ length' = hostLen
              /\ layer.domain = "CORNER"
                    => /\ Values(loop_start') = PolygonField("loop_start")
                       /\ Values(loop_total') = PolygonField("loop_total")
              /\ layer.domain # "CORNER"
                    => loop_start' = loop_start /\ loop_total' = loop_total
       /\ (IsUA /\ last'.op = "set")
           => /\ polygons' = polygons
              /\ loop_start' = loop_start /\ loop_total' = loop_total
              /\ ndarray' = ndarray
              /\ last'.err = "none" => host' = foreach_set(host, hostLen, Ravel(ndarray))
      ]_allvars

\* set() has returned on a face-corner proxy whose loop buffers are stale
C18_Witness ==
    /\ IsLoop
    /\ Returned("set")
    /\ Values(loop_start) # PolygonField("loop_start")
    /\ host # [i \in 1 .. Len(host) |-> Vec(0, hostLen)]

\* C19: for a face-corner UnifiedAttribute the loop_start buffer and the
\* loop_total buffer have equal items in every state after construction,
\* also after a get() that fails because the host has no faces left
C19_LoopBuffersSameItems ==
    IsLoop => loop_start.items = loop_total.items

\* face i of the proxy has its loops within the rows of the attribute buffer
InBounds(i) ==
    /\ i < Rows(loop_start.ndarray) /\ i < Rows(loop_total.ndarray)
    /\ 0 <= Item(loop_start, i)
    /\ Item(loop_start, i) + Item(loop_total, i) <= Rows(ndarray)

\* C20: for a face-corner UnifiedAttribute, after construction, after every
\* get() that returns and after extend, discard and in-place arithmetic that
\* follow, the range [loop_start[i], loop_start[i] + loop_total[i]) of every
\* face i < len(proxy) lies within the rows of the attribute buffer
C20_FaceRangesInBounds ==
    IsLoop => \A i \in 0 .. __len__ - 1 : InBounds(i)

\* a proxy over faces of different corner counts, refreshed after the host
\* changed its faces, extended and discarded
C20_Witness ==
    /\ IsLoop
    /\ __len__ = 2
    /\ Item(loop_total, 0) # Item(loop_total, 1)
    /\ ndarray.cols = 3 /\ BaseCols(ndarray) = 4
    /\ last.op = "iadd" /\ last.err = "none"

IsPC == proxy = "PropertyCollection"
\* the first n components of x
Prefix(x, n) == SubSeq(x, 1, IF n < Len(x) THEN n ELSE Len(x))
\* the one-element view of element i of the buffer
ViewOf(i) == [id |-> ndarray.id, lo |-> i, hi |-> i + 1, cols |-> ndarray.cols]

\* C12: for a PropertyCollection and i < items, proxy[i] and the i-th item of
\* an iteration are one-element views of the buffer, and proxy[i] = v assigns
\* in place; a row written through such a view or by index assignment is in
\* the buffer, is in host element i after the next set() that returns, and
\* is in row i of the buffer after a get() that follows it
C12_ItemsAreViews ==
    IsPC =>
        /\ (Returned("getitem") /\ ret.key < items)
               => ret.kind = "view" /\ view = ViewOf(ret.key)
        /\ Returned("next")
               => ret.kind = "view" /\ ret.key < items /\ view = ViewOf(ret.key)
        /\ (Returned("setitem") /\ ret.key < items)
               => last.was = ndarray.id /\ wrote.stage = "buffer" /\ wrote.key = ret.key
        /\ (Returned("viewwrite") /\ view = ViewOf(view.lo))
               => last.was = ndarray.id /\ wrote.stage = "buffer" /\ wrote.key = view.lo
        /\ wrote.stage = "buffer"
               => Prefix(ndarray.rows[wrote.key + 1], hostLen) = Prefix(wrote.val, hostLen)
        /\ (Returned("set") /\ wrote.stage = "host")
               => host[wrote.key + 1] = Prefix(wrote.val, hostLen)
        /\ (Returned("get") /\ wrote.stage = "host")
               => Prefix(ndarray.rows[wrote.key + 1], hostLen) = Prefix(wrote.val, hostLen)

\* a row written through the container interface has reached the host by
\* set() and has come back into a new buffer by get()
C12_Witness ==
    /\ IsPC
    /\ Returned("get")
    /\ last.was # ndarray.id
    /\ wrote.stage = "host"
    /\ Visible(ndarray)[1] = Vec(1, hostLen)
    /\ host[1] = Vec(1, hostLen)

\* C15: reading proxy[i] or assigning proxy[i] = v with i >= len(proxy)
\* raises IndexError, for a PropertyCollection and for a UnifiedAttribute of
\* every domain (stated for proxies that hold their buffers)
C15_IndexOutOfRange ==
    (/\ proxy # "none"
     /\ last.op \in {"getitem", "setitem"}
     /\ ndarray # None
     /\ IsLoop => (loop_start.ndarray # None /\ loop_total.ndarray # None)
     /\ ret.key >= __len__)
        => last.err = "IndexError"

\* the item of an iteration at position k: face k's loops for a face-corner
\* UnifiedAttribute, the one-element view of element k otherwise
ItemAt(k) ==
    IF IsLoop
    THEN [id |-> ndarray.id, lo |-> Item(loop_start, k),
          hi |-> Item(loop_start, k) + Item(loop_total, k), cols |-> ndarray.cols]
    ELSE ViewOf(k)

\* C16: iter(proxy) puts the cursor at element 0 whatever it was, and the
\* call of next() at cursor k yields the item at position k and moves the
\* cursor to k + 1 when k < len(proxy), and raises StopIteration otherwise:
\* an iteration yields len(proxy) items in element order and ends
C16_IterationYieldsLenItems ==
    [][/\ last'.op = "iter"
           => _index' = 0 /\ last'.err = "none" /\ ret'.kind = proxy
       /\ (last'.op = "next" /\ _index >= 0)
           => /\ _index' = _index + 1
              /\ IF _index < __len__
                 THEN /\ last'.err = "none"
                      /\ ret'.kind = "view" /\ ret'.key = _index
                      /\ view' = ItemAt(_index)
                      /\ view'.hi > view'.lo /\ view'.hi <= Rows(ndarray)
                 ELSE last'.err = "StopIteration" /\ view' = view
              /\ ndarray' = ndarray /\ host' = host
      ]_allvars

\* the iteration over a face-corner proxy has come to its last face, and
\* the one over two or more elements to their end
C16_Witness ==
    \/ /\ IsLoop
       /\ Returned("next")
       /\ __len__ >= 2
       /\ ret.key = __len__ - 1
       /\ view.hi - view.lo = 2
    \/ /\ ~IsLoop
       /\ Raised("next", "StopIteration")
       /\ _index = __len__ + 1
       /\ __len__ >= 2

\* the rows the operator of the call last' makes of the buffer
Result(op) ==
    IF op = "matmul" THEN np_dot(ndarray, Cycle(last'.arg))
    ELSE Applied(op, ndarray, last'.arg)

\* C13: the operators @, +, -, *, / of both proxies leave the buffer (its
\* storage, contents, items, length), the loop buffers and the host as they
\* were, and what they return is an array with the result in storage that is
\* not the buffer's
C13_OperatorsReturnNewArray ==
    [][last'.op \in {"matmul"} \cup Ops
        => /\ UNCHANGED <<host, ndarray, items, length, extended, loop_start, loop_total>>
           /\ last'.err = "none"
                => /\ ret'.kind = "array"
                   /\ ret'.arr.id \notin {0, ndarray.id}
                   /\ ret'.arr.rows = Result(last'.op)
      ]_allvars

\* a UnifiedAttribute over two or more vectors was multiplied by a matrix
C13_Witness ==
    /\ IsUA
    /\ Returned("matmul")
    /\ Rows(ndarray) >= 2
    /\ ret.arr.rows # Visible(ndarray)
    /\ ret.arr.id # ndarray.id

\* C14: an in-place operator (@=, +=, -=, *=, /=) that returns has written
\* its result into the storage the buffer had (a view of it is still a view
\* of the buffer), has left items, length and the host alone, and returns the
\* proxy it was applied to: the UnifiedAttribute, not its loop_attributes
C14_InPlaceOperatorsReturnProxy ==
    [][(last'.op \in {"imatmul"} \cup {"i" \o o : o \in Ops} /\ last'.err = "none")
        => /\ ndarray'.id = ndarray.id
           /\ Visible(ndarray') =
                 Result(IF last'.op = "imatmul" THEN "matmul"
                        ELSE CHOOSE o \in Ops : "i" \o o = last'.op)
           /\ ndarray'.cols = ndarray.cols /\ ndarray'.ndim = ndarray.ndim
           /\ view' = view
           /\ UNCHANGED <<host, items, length, extended, loop_start, loop_total>>
           /\ ret'.kind = proxy
      ]_allvars

\* a UnifiedAttribute was multiplied in place by a 4 x 4 matrix while the
\* caller held a view of its first row
C14_Witness ==
    /\ IsUA
    /\ Returned("imatmul")
    /\ last.arg = 4
    /\ ret.kind = "UnifiedAttribute"
    /\ view = ViewOf(0)
    /\ Visible(ndarray)[1] # <<2, 4, 6, 1>>

\* row r (counted from 1) lies in the window w
InWindow(w, r) == w.lo < r /\ r <= w.hi
\* the loops of every face of the mesh hold one value
FaceWise(h) ==
    \A i \in 1 .. Len(polygons) : \A r \in 1 .. Len(h) :
        (polygons[i].loop_start < r /\ r <= polygons[i].loop_start + polygons[i].loop_total)
            => h[r] = h[polygons[i].loop_start + 1]

\* C21: for a face-corner UnifiedAttribute and a face i < len(proxy),
\* proxy[i] is the view of exactly loop_total[i] rows of the attribute buffer
\* from row loop_start[i] on, whatever the number of faces and their corner
\* counts; a value assigned through it, or by proxy[i] = v, is in those rows
\* of the buffer and in no other, and the set() that follows writes it to
\* the loops of face i and leaves the loops of the other faces as they were
C21_FaceWindows ==
    [][/\ (IsLoop /\ last'.op = "getitem" /\ ret'.key < __len__)
            => /\ last'.err = "none" /\ ret'.kind = "view"
               /\ view'.id = ndarray.id
               /\ view'.lo = polygons[ret'.key + 1].loop_start
               /\ view'.hi - view'.lo = polygons[ret'.key + 1].loop_total
               /\ view'.hi <= Rows(ndarray)
               /\ UNCHANGED <<ndarray, host>>
       /\ (IsLoop /\ ((last'.op = "setitem" /\ ret'.key < __len__) \/ last'.op = "viewwrite"))
            => LET w == IF last'.op = "setitem" THEN ItemAt(ret'.key) ELSE view
               IN /\ last'.err = "none"
                  /\ ndarray'.id = ndarray.id /\ host' = host
                  /\ \E t \in Tags : \A r \in 1 .. Rows(ndarray) :
                         Visible(ndarray')[r] =
                            IF InWindow(w, r) THEN Vec(t, ndarray.cols) ELSE Visible(ndarray)[r]
       /\ (IsLoop /\ last.op \in {"setitem", "viewwrite"} /\ last.err = "none"
              /\ last'.op = "set")
            => LET w == IF last.op = "setitem" THEN ItemAt(ret.key) ELSE view
               IN /\ last'.err = "none"
                  /\ \E t \in Tags : \A r \in 1 .. Len(host) :
                         InWindow(w, r) => host'[r] = Vec(t, hostLen)
                  /\ FaceWise(host')
      ]_allvars

\* set() has returned on a mesh of two faces with different corner counts
\* when the window of the second face was written: its loops hold the value
\* written and the loops of the first face what they held
C21_Witness ==
    /\ IsLoop
    /\ Returned("set")
    /\ Len(polygons) = 2
    /\ polygons[1].loop_total # polygons[2].loop_total
    /\ view = ItemAt(1)
    /\ \A r \in 1 .. Len(host) :
           host[r] = IF InWindow(view, r) THEN Vec(1, hostLen) ELSE Vec(0, hostLen)

\* C22: a UnifiedAttribute that was constructed holds, fetched by the
\* constructor, the attribute buffer with the field of every element of the
\* layer, and in the CORNER domain also the loop_start and loop_total buffers
\* with the values of every face, in the other domains no other buffer;
\* len(proxy) is the number of faces in the CORNER domain and the number of
\* elements otherwise
C22_EagerBuffers ==
    [][(proxy = "none" /\ proxy' = "UnifiedAttribute")
        => /\ ndarray' # None /\ items' = Len(host) /\ length' = hostLen
           /\ Visible(ndarray') = host
           /\ host' = host /\ polygons' = polygons
           /\ IF layer.domain = "CORNER"
              THEN /\ loop_start'.ndarray # None /\ loop_total'.ndarray # None
                   /\ Values(loop_start') = PolygonField("loop_start")
                   /\ Values(loop_total') = PolygonField("loop_total")
                   /\ __len__' = Len(polygons)
              ELSE /\ loop_start' = NoPC /\ loop_total' = NoPC
                   /\ __len__' = Len(host)
      ]_allvars

\* a face-corner proxy was constructed over a mesh of two faces and three
\* loops
C22_Witness ==
    /\ IsLoop
    /\ ret.kind = "UnifiedAttribute" /\ last.op = "get" /\ last.was = 0
    /\ Len(polygons) = 2 /\ Len(host) = 3
    /\ loop_total.items = 2 /\ items = 3

\* the field name the table of the code gives a data type
Expected(data_type) ==
    IF data_type \in {"BYTE_COLOR", "FLOAT_COLOR"} THEN "color"
    ELSE IF data_type \in {"FLOAT_VECTOR", "QUATERNION", "INT16_2D", "INT32_2D", "FLOAT2"}
    THEN "vector"
    ELSE "value"

\* C23: without a field name UnifiedAttribute takes the field from the data
\* type of the layer: "color" for BYTE_COLOR and FLOAT_COLOR, "vector" for
\* FLOAT_VECTOR, QUATERNION, INT16_2D, INT32_2D and FLOAT2, "value" for
\* every other type, listed in the table or not; a field name that is given
\* is used as it is.  The field is the proxy's attr when the constructor
\* returns, and the field the error names when the elements lack it
C23_DefaultField ==
    [][/\ \A k \in Kinds \cup {"FLOAT4X4", "STRING"} : default_attribute(k) = Expected(k)
       /\ (proxy = "none" /\ proxy' = "UnifiedAttribute")
            => self_attr' = IF ret'.key[2] = "None" THEN Expected(layer.data_type)
                            ELSE Given(layer.data_type)
       /\ (last'.op = "UnifiedAttribute" /\ last'.err = "UnknownAttribute"
              /\ last'.arg[1] \notin {"unknown", "badindex"})
            => last'.arg[3] = IF last'.arg[2] = "None" THEN Expected(layer.data_type)
                              ELSE IF last'.arg[2] = "field" THEN Given(layer.data_type)
                              ELSE "nofield"
      ]_allvars

\* a proxy was constructed without a field name over a layer of colors,
\* of 2-d vectors and of integers
C23_Witness ==
    /\ proxy = "UnifiedAttribute"
    /\ last.op = "get" /\ last.was = 0
    /\ ret.kind = "UnifiedAttribute" /\ ret.key[2] = "None"
    /\ \/ layer.data_type = "BYTE_COLOR" /\ self_attr = "color"
       \/ layer.data_type = "FLOAT2" /\ self_attr = "vector"
       \/ layer.data_type = "INT8" /\ self_attr = "value"

\* the type of the components of the field of a layer's elements
ComponentType(data_type) ==
    CASE data_type = "BOOLEAN" -> "bool"
      [] data_type \in {"INT", "INT8", "INT16_2D", "INT32_2D"} -> "int"
      [] OTHER -> "float32"

\* C24: after every get() that returns, the components of the buffer are
\* boolean when the field is boolean, integer when the field holds integers
\* (one or a vector of them), and 32-bit float otherwise, also when the
\* get() has kept the buffer it had
C24_BufferDtype ==
    (proxy # "none" /\ Returned("get")) => ndarray.dtype = ComponentType(layer.data_type)

\* C25: PropertyCollection.set(), whether it returns or raises, allocates
\* nothing: the buffer (its storage, shape and contents), items, length and
\* extended are after the call what they were before
C25_SetNeverAllocates ==
    [][last'.op = "set" => UNCHANGED <<ndarray, items, length, extended>>]_vars

\* set() has returned on the slice left by extend() and discard(), of which
\* ravel() is a copy
C25_Witness ==
    /\ Returned("set")
    /\ ndarray.cols < BaseCols(ndarray) /\ Rows(ndarray) >= 2
    /\ last.was = ndarray.id
    /\ host = Visible(ndarray)

\* C26: extend() and discard() of a UnifiedAttribute act on the attribute
\* buffer only: the loop_start and loop_total buffers (storage, contents,
\* items, length) and the host are as before, and so are len(proxy), the
\* number of rows of the attribute buffer and the rows of every face's window
C26_ExtendDiscardFrame ==
    [][(IsUA /\ last'.op \in {"extend", "discard"})
        => /\ UNCHANGED <<loop_start, loop_total, host, polygons, items>>
           /\ __len__' = __len__
           /\ Rows(ndarray') = Rows(ndarray)
           /\ IsLoop => \A i \in 0 .. __len__ - 1 :
                  (i < Rows(loop_start.ndarray) /\ i < Rows(loop_total.ndarray))
                      => /\ ItemAt(i)'.lo = ItemAt(i).lo
                         /\ ItemAt(i)'.hi = ItemAt(i).hi
      ]_allvars

\* discard() has returned on a face-corner proxy of two faces that was
\* extended
C26_Witness ==
    /\ IsLoop
    /\ Returned("discard")
    /\ __len__ = 2 /\ loop_total.items = 2
    /\ ndarray.cols = 3 /\ BaseCols(ndarray) = 4

\* C27: only set() writes to the host: get, extend, discard, indexing, index
\* assignment, iteration, assignment through a view and the arithmetic
\* operators, in place or not, of both proxies, and the constructor, leave
\* the field of every element and the faces as they are
C27_OnlySetWritesHost ==
    [][last'.op # "set" => (host' = host /\ polygons' = polygons /\ hostLen' = hostLen)]_allvars

\* an element was assigned by index and the host element still holds its
\* old value
C27_Witness ==
    /\ Returned("setitem")
    /\ ret.key = 0
    /\ Visible(ndarray)[1] = Vec(1, ndarray.cols)
    /\ host[1] = Vec(0, hostLen)

\* C28: a call of set(), extend() or discard() of a PropertyCollection that
\* raises leaves the buffer (its storage and its contents), items, length and
\* extended as they were, and so does every failing call other than get()
C28_FailureKeepsState ==
    [][(last'.err # "none" /\ last'.op # "get")
        => UNCHANGED <<ndarray, items, length, extended>>]_vars

\* extend() was refused on a buffer of 4-vectors, which is still there
C28_Witness ==
    /\ Raised("extend", "ShapeMismatch")
    /\ ndarray # None
    /\ length = 4
    /\ items = Len(host)

\* C29: set() of a PropertyCollection that holds no buffer, because get() was
\* never called or because a failed get() dropped it, raises (empty
\* collection, or the component count does not match) and leaves the host as
\* it is, whether the collection has elements or not
C29_SetWithoutBuffer ==
    [][(last'.op = "set" /\ ndarray = None)
        => (/\ last'.err = (IF Len(host) = 0 THEN "EmptyCollection" ELSE "ShapeMismatch")
            /\ host' = host /\ hostLen' = hostLen
            /\ ndarray' = None)]_vars

\* set() was refused on a populated collection while there was no buffer
C29_Witness ==
    /\ Raised("set", "ShapeMismatch")
    /\ ndarray = None
    /\ length = 0
    /\ Len(host) > 0

\* the keys of a loop that is given every element once, in order
AllKeys == [i \in 1 .. __len__ |-> i - 1]

\* iter() returns the proxy and puts the one cursor at 0, and next(), whose
\* ever loop calls it, moves the cursor one on and gives the element it
\* stood at
CommonCursor ==
    [][/\ last'.op = "iter" => (_index' = 0 /\ ret'.kind = proxy)
       /\ (last'.op = "next" /\ _index >= 0)
           => /\ _index' = _index + 1
              /\ last'.err = (IF _index < __len__ THEN "none" ELSE "StopIteration")
              /\ last'.err = "none" => ret'.key = _index
      ]_allvars

\* C30 as it is stated: a proxy is its own iterator with one cursor, so a
\* loop during which a second loop over the proxy was started never, over
\* a proxy that has elements visits every one of them exactly once
C30_FirstLoopNeverComplete ==
    /\ CommonCursor
    /\ [](\A c \in Callers :
            (loops[c].stage = "ended" /\ loops[c].shared /\ __len__ >= 1)
            => loops[c].seen # AllKeys)

\* C30, amended: a proxy is its own iterator with one cursor that iter()
\* puts at 0 and every next() moves on; while the buffer is not fetched
\* again, a loop during which a second loop was started and ran to its end
\* before the first went on is over at its next call, and has visited the
\* elements it was given before the second one started and no others
C30_SharedCursor ==
    /\ CommonCursor
    /\ [][\A c \in Callers :
            (/\ loops[c].stage = "running" /\ loops[c].inner = "done"
             /\ loops'[c] # loops[c] /\ last'.op = "next")
            => (last'.err = "StopIteration" /\ loops'[c].stage = "ended")]_allvars
    /\ [](\A c \in Callers :
            (loops[c].stage = "ended" /\ loops[c].inner = "done")
            => loops[c].seen = [i \in 1 .. loops[c].mark |-> i - 1])

\* the outer one of two nested loops over three or more elements is over
\* after its first element
C30_Witness ==
    \E c \in Callers :
        /\ loops[c].stage = "ended" /\ loops[c].inner = "done"
        /\ loops[c].seen = <<0>>
        /\ __len__ >= 3
        /\ \E d \in Callers : loops[d].seen = AllKeys /\ loops[d].stage = "ended"

\* the caller holds a view that shows rows
Holding == view.hi > view.lo

\* get() is about to allocate
Reallocates ==
    ndarray = None \/ Len(host) # items \/ hostLen # length \/ extended

\* C31: extend() and a get() that allocates leave the views the caller holds
\* in the storage the buffer has left: what is assigned through them changes
\* neither the buffer nor the host, and set() copies the buffer alone;
\* discard() keeps the storage, and what is assigned through a view of
\* 4-vectors taken between extend() and discard() is in the three components
\* the buffer shows of those rows
C31_ViewsAcrossShapeChanges ==
    [][/\ (/\ Holding /\ last'.err = "none"
           /\ \/ last'.op = "extend"
              \/ last'.op = "get" /\ Reallocates)
           => /\ view' = view
              /\ ndarray'.id # ndarray.id
              /\ view'.id # ndarray'.id
       /\ (last'.op = "viewwrite" /\ view.id # ndarray.id)
           => ndarray' = ndarray /\ host' = host
       /\ (last'.op = "set" /\ last'.err = "none")
           => Flat(host', Len(host'), hostLen) = Ravel(ndarray)
       /\ (Holding /\ last'.op = "discard" /\ last'.err = "none")
           => /\ view' = view
              /\ ndarray'.id = ndarray.id
              /\ (view.id = ndarray.id) = (view'.id = ndarray'.id)
       /\ (last'.op = "viewwrite" /\ view.id = ndarray.id)
           => \E t \in Tags :
                \A i \in view.lo + 1 .. view.hi :
                    \A j \in 1 .. ndarray.cols :
                        j <= view.cols => Visible(ndarray')[i][j] = Vec(t, view.cols)[j]
      ]_allvars

\* a row was assigned through a view of 3-vectors taken before extend(): the
\* buffer of 4-vectors is in other storage and its row is as it was fetched
C31_Witness ==
    /\ Returned("viewwrite")
    /\ view.cols = 3 /\ ndarray.cols = 4
    /\ view.id \notin {0, ndarray.id}
    /\ Prefix(Visible(ndarray)[view.lo + 1], 3) = Vec(0, 3)

\* a row was assigned through a view of 4-vectors after discard(): its
\* first three components are in the buffer and not yet in the host
C31_WitnessDiscard ==
    /\ Returned("viewwrite")
    /\ view.cols = 4 /\ ndarray.cols = 3
    /\ view.id = ndarray.id
    /\ Visible(ndarray)[view.lo + 1] = Vec(1, 3)
    /\ host[view.lo + 1] = Vec(0, 3)

\* the constructor was given a name, an index or a reference that leads to
\* the layer
Resolved ==
    \/ last.arg[1] \in {"name", "index"}
    \/ last.arg[1] = "layer" /\ last.arg[2] = "None"

\* C32: the constructor looks up the layer (and refuses a reference given
\* with a field name), then looks for the field in the first element, then
\* tests the domain, then the storage type, and the first of these that
\* fails decides the error: a layer of an unsupported domain whose elements
\* lack the field gives UnknownAttribute; no buffer exists after a failure,
\* and where buffers were fetched every test has passed
C32_CheckOrder ==
    /\ last.op = "UnifiedAttribute" =>
          /\ proxy = "none" /\ ndarray = None /\ loop_start = NoPC /\ loop_total = NoPC
          /\ last.err =
                IF last.arg[1] \in {"unknown", "badindex"} THEN "UnknownAttribute"
                ELSE IF ~Resolved THEN "InvalidArgument"
                ELSE IF Len(host) = 0 THEN "IndexError"
                ELSE IF Attr(last.arg[2]) \notin Fields(layer.data_type) THEN "UnknownAttribute"
                ELSE IF layer.domain \notin Domains THEN "DomainNotSupported"
                ELSE "StorageNotSupported"
          /\ last.err = "StorageNotSupported" => layer.storage_type # "ARRAY"
    /\ (ndarray # None \/ loop_start # NoPC \/ loop_total # NoPC) =>
          /\ proxy = "UnifiedAttribute"
          /\ self_attr \in Fields(layer.data_type)
          /\ layer.domain \in Domains
          /\ layer.storage_type = "ARRAY"

\* the constructor was refused over a curve layer with elements for a
\* field they lack: the field is what the error is about
C32_Witness ==
    /\ Raised("UnifiedAttribute", "UnknownAttribute")
    /\ Resolved
    /\ last.arg[2] = "nofield"
    /\ Len(host) > 0
    /\ layer.domain = "CURVE"
    /\ ndarray = None

\* C33: the constructor, given a layer it can resolve, in a supported
\* domain and stored as an array, that has no elements, fails with
\* EmptyCollection, raised by get()
C33_EmptyLayer ==
    (/\ proxy = "none"
     /\ Len(host) = 0
     /\ layer.domain \in Domains /\ layer.storage_type = "ARRAY"
     /\ \/ last.op = "get"
        \/ last.op = "UnifiedAttribute" /\ Resolved /\ last.arg[2] # "nofield")
    => last.err = "EmptyCollection"

====
